---- MODULE Spec2Model ----
(***************************************************************************)
(* The request-execution pipeline of the Huefy client SDKs: one call of    *)
(* sendEmail on one client, in each of the three bindings whose retry loop *)
(* is in the repository:                                                   *)
(*   "go"     Client.SendEmail / doRequest / performRequest  (huefy.go)    *)
(*   "swift"  HuefyClient.sendEmail / performRequest / executeRequest      *)
(*   "kotlin" HuefyClient.sendEmail / performRequest / executeRequest      *)
(* The server, the network and the caller's cancellation are the           *)
(* environment: each transport attempt is answered with any response of    *)
(* Responses or with a transport failure, and the caller may cancel while  *)
(* an attempt is in flight or while a backoff delay is waited out.         *)
(* Durations are milliseconds; multipliers are tenths (20 is 2.0).         *)
(* Further specifications over the same variables: ValidateSpec (request   *)
(* validation alone), BulkSpec (one bulk call), ClassifySpec (one answered  *)
(* attempt), LiveSpec (Spec with fairness), ConfigSpec (construction of     *)
(* clients), ConcSpec (two calls on one client), HeaderSpec (the headers    *)
(* of each attempt), TypeSpec (Go's error type checkers), EncodeSpec        *)
(* (Swift's request body), EqualitySpec (Swift's == on HuefyError) and      *)
(* PublisherSpec (Swift's Combine publishers).                              *)
(***************************************************************************)
EXTENDS Integers, Sequences, FiniteSets, TLC

VARIABLES
    sdk,            \* which binding the client is
    cfg,            \* the client's retry configuration, fixed at construction
    req,            \* the request of the call
    pc,             \* "Built", "Sending", "Retrying" or "Done"
    attempt,        \* the loop counter of the retry loop
    attempts,       \* number of transport attempts started (performRequest / executeRequest calls)
    lastErr,        \* lastErr (Go), lastError (Swift), lastException (Kotlin)
    delay,          \* the backoff delay being waited out (ms)
    last,           \* what the most recent finished attempt was answered with
    seen,           \* the HTTP statuses received so far (0 for a transport failure)
    cancelAt,       \* "none", or the pc at which the caller cancelled
    cancelAttempts, \* attempts at the moment of cancellation
    result,         \* what the call returned, once pc = "Done"
    apiKey,         \* the client's API key, fixed at construction
    headers,        \* the headers of the most recent transport attempt's request
    parked,         \* the local state of a second call on the client, not running
    heap,           \* Go: the RetryConfig values behind the pointers in use
    clients,        \* the clients constructed so far
    subscribers     \* Swift: what each subscriber of a publisher has received

vars == <<sdk, cfg, req, pc, attempt, attempts, lastErr, delay, last, seen,
          cancelAt, cancelAttempts, result, apiKey, headers, parked, heap,
          clients, subscribers>>

----------------------------------------------------------------------------
(* Bounds and domains *)

MaxRetriesBound == 3

SDKs == {"go", "swift", "kotlin"}

\* MaxRetries (Go) / retryAttempts (Swift, Kotlin): an unchecked Int in all three.
RetrySettings == -1 .. MaxRetriesBound

BaseDelays == {1000, 2000}
Multipliers == {15, 20}
MaxDelays == {3000, 30000}

GoConfigs ==
    [retry : RetrySettings, baseDelay : BaseDelays,
     multiplier : Multipliers, maxDelay : MaxDelays]

\* Swift and Kotlin configure only retryAttempts and retryDelay; the factor 2.0
\* is fixed in the code and there is no cap.
MobileConfigs ==
    [retry : RetrySettings, baseDelay : BaseDelays,
     multiplier : {20}, maxDelay : {0}]

Min(a, b) == IF a <= b THEN a ELSE b

RECURSIVE Pow(_, _)
Pow(b, e) == IF e <= 0 THEN 1 ELSE b * Pow(b, e - 1)

----------------------------------------------------------------------------
(* Requests *)

\* A nil *SendEmailRequest (Go only); its other fields are never read.
NilRequest ==
    [nil |-> TRUE, templateKey |-> "", data |-> "nil", recipient |-> <<>>,
     provider |-> "none"]

\* Recipients as character sequences: "", "not", "a@b", "a@b.c".
Recipients ==
    { <<>>, <<"n", "o", "t">>, <<"a", "@", "b">>, <<"a", "@", "b", ".", "c">> }

Contains(s, c) == \E i \in 1 .. Len(s) : s[i] = c

KnownProviders == {"ses", "sendgrid", "mailgun", "mailchimp"}

\* Go: Data may be a nil map and Provider any string behind the pointer.
GoRequests ==
    [nil : {FALSE}, templateKey : {"", "welcome-email"}, data : {"nil", "map"},
     recipient : Recipients, provider : {"none", "ses", "invalid"}]
        \cup {NilRequest}

\* Swift, Kotlin: data is a non-optional dictionary, provider an enum or nil.
MobileRequests ==
    [nil : {FALSE}, templateKey : {"", "welcome-email"}, data : {"map"},
     recipient : Recipients, provider : {"none", "ses"}]

----------------------------------------------------------------------------
(* Errors.  A message is a sequence of words; `at` is the number of the   *)
(* attempt that produced the error (0: no attempt did).                   *)

\* A JSON value of an error body's details: absent, or a string, a number (by
\* its text) or an array of strings.
Absent == [t |-> "absent", v |-> <<>>]
JString(str) == [t |-> "string", v |-> <<str>>]
JNumber(text) == [t |-> "number", v |-> <<text>>]
JArray(strs) == [t |-> "array", v |-> strs]

\* The details map, by the keys the SDK reads (nil: every key absent).
NoDetails ==
    [templateKey |-> Absent, validationErrors |-> Absent, provider |-> Absent,
     providerCode |-> Absent, retryAfter |-> Absent]

\* The fields the typed errors have beside the embedded HuefyError, zeroed.
NoFields ==
    [templateKey |-> "", validationErrors |-> <<>>, provider |-> "",
     providerCode |-> "", retryAfter |-> 0]

Err(type, code, msg, status) ==
    [type |-> type, code |-> code, msg |-> msg, status |-> status, at |-> 0,
     details |-> NoDetails, fields |-> NoFields]

NoError == Err("nil", "", <<>>, 0)

NewValidationError(msg) == Err("ValidationError", "VALIDATION_FAILED", msg, 0)

NewInvalidRecipientErrorAsValidation(msg) ==
    Err("ValidationError", "VALIDATION_FAILED", msg, 0)

NewInvalidRecipientError(msg) ==
    Err("InvalidRecipientError", "INVALID_RECIPIENT", msg, 0)

NewNetworkError(msg) == Err("NetworkError", "NETWORK_ERROR", msg, 0)

validateSendEmailRequestEitherSign(r) ==
    IF r.nil THEN NewValidationError(<<"request", "cannot", "be", "nil">>)
    ELSE IF r.templateKey = "" THEN NewValidationError(<<"templateKey", "is", "required">>)
    ELSE IF r.recipient = <<>> THEN NewValidationError(<<"recipient", "is", "required">>)
    ELSE IF ~Contains(r.recipient, "@") /\ ~Contains(r.recipient, ".")
        THEN NewInvalidRecipientError(<<"invalid", "email", "address">>)
    ELSE IF r.data = "nil" THEN NewValidationError(<<"data", "is", "required">>)
    ELSE IF r.provider # "none" /\ r.provider \notin KnownProviders
        THEN NewValidationError(<<"invalid", "provider">>)
    ELSE NoError

\* validateSendEmailRequest, with SendEmail's nil check in front of it.
validateSendEmailRequestDataFirst(r) ==
    IF r.nil THEN NewValidationError(<<"request", "cannot", "be", "nil">>)
    ELSE IF r.templateKey = "" THEN NewValidationError(<<"templateKey", "is", "required">>)
    ELSE IF r.data = "nil" THEN NewValidationError(<<"data", "is", "required">>)
    ELSE IF r.recipient = <<>> THEN NewValidationError(<<"recipient", "is", "required">>)
    ELSE IF ~Contains(r.recipient, "@") \/ ~Contains(r.recipient, ".")
        THEN NewInvalidRecipientError(<<"invalid", "email", "address">>)
    ELSE IF r.provider # "none" /\ r.provider \notin KnownProviders
        THEN NewValidationError(<<"invalid", "provider">>)
    ELSE NoError

\* SendEmail's `if req == nil`, then validateSendEmailRequest's checks in
\* their order.
validateSendEmailRequest(r) ==
    IF r.nil THEN NewValidationError(<<"request", "cannot", "be", "nil">>)
    ELSE IF r.templateKey = "" THEN NewValidationError(<<"templateKey", "is", "required">>)
    ELSE IF r.recipient = <<>> THEN NewValidationError(<<"recipient", "is", "required">>)
    ELSE IF ~Contains(r.recipient, "@") \/ ~Contains(r.recipient, ".")
        THEN NewInvalidRecipientError(<<"invalid", "email", "address">>)
    ELSE IF r.data = "nil" THEN NewValidationError(<<"data", "is", "required">>)
    ELSE IF r.provider # "none" /\ r.provider \notin KnownProviders
        THEN NewValidationError(<<"invalid", "provider">>)
    ELSE NoError

----------------------------------------------------------------------------
(* What an attempt can be answered with *)

Statuses == {200, 300, 400, 401, 403, 404, 429, 500, 503}

\* {"error": {"code": ..., "message": ..., "details": {...}}}
NestedBodyWith(code, msg, details) ==
    [shape |-> "nested", code |-> code, message |-> msg, details |-> details]

NestedBody(code, msg) == NestedBodyWith(code, msg, NoDetails)

\* {"code": ..., "message": ...}
FlatBody(code, msg) ==
    [shape |-> "flat", code |-> code, message |-> msg, details |-> NoDetails]

GarbageBody ==
    [shape |-> "garbage", code |-> "", message |-> <<"<html>">>, details |-> NoDetails]

SuccessBody ==
    [shape |-> "success", code |-> "", message |-> <<"ok">>, details |-> NoDetails]

NoBody == [shape |-> "none", code |-> "", message |-> <<>>, details |-> NoDetails]

\* The code and message the API documents for a status.
CanonicalCode(status) ==
    CASE status = 400 -> "VALIDATION_FAILED"
      [] status = 401 -> "AUTHENTICATION_FAILED"
      [] status = 403 -> "FORBIDDEN"
      [] status = 404 -> "TEMPLATE_NOT_FOUND"
      [] status = 429 -> "RATE_LIMIT_EXCEEDED"
      [] status = 500 -> "INTERNAL_SERVER_ERROR"
      [] status = 503 -> "SERVICE_UNAVAILABLE"
      [] OTHER -> ""

CanonicalMessage(status) ==
    CASE status = 400 -> <<"Invalid", "email", "format">>
      [] status = 401 -> <<"Invalid", "API", "key">>
      [] status = 403 -> <<"Forbidden">>
      [] status = 404 -> <<"Template", "not", "found">>
      [] status = 429 -> <<"Rate", "limit", "exceeded">>
      [] status = 500 -> <<"Internal", "server", "error">>
      [] status = 503 -> <<"Service", "unavailable">>
      [] OTHER -> <<>>

\* The details the API documents for a status.
CanonicalDetails(status) ==
    CASE status = 404 -> [NoDetails EXCEPT !.templateKey = JString("welcome-email")]
      [] status = 429 -> [NoDetails EXCEPT !.retryAfter = JNumber("60")]
      [] OTHER -> NoDetails

\* Bodies a server or a proxy in front of it sends with a status: the documented
\* error body in its nested and its flat shape, and a body that is not JSON.
\* 300 is a 3xx status the HTTP clients hand on as it is (no redirect is
\* followed for it); it comes with a JSON document or with none.
BodiesFor(status) ==
    IF status < 400 THEN {SuccessBody, GarbageBody}
    ELSE {NestedBodyWith(CanonicalCode(status), CanonicalMessage(status),
                         CanonicalDetails(status)),
          FlatBody(CanonicalCode(status), CanonicalMessage(status)),
          GarbageBody}
         \cup (IF status = 404
                THEN {FlatBody("NOT_FOUND", <<"Resource", "Not", "Found">>)}
                ELSE {})

Response(status, body) ==
    [kind |-> "response", status |-> status, body |-> body, failure |-> "none"]

Failure(f) ==
    [kind |-> "failure", status |-> 0, body |-> NoBody, failure |-> f]

NoOutcome == [kind |-> "none", status |-> 0, body |-> NoBody, failure |-> "none"]

Responses == UNION { { Response(s, b) : b \in BodiesFor(s) } : s \in Statuses }

\* URLSession, OkHttp and net/http fail an attempt without a response when the
\* connection fails or the configured timeout elapses.
TransportFailures == {Failure("network"), Failure("timeout")}

\* An attempt in flight when the caller cancels ends with the transport's
\* cancellation failure.
Outcomes == Responses \cup TransportFailures

----------------------------------------------------------------------------
(* Go: performRequest, createErrorFromResponse, isRetryableError *)

HttpCode(status) ==
    CASE status = 300 -> "HTTP_300"
      [] status = 400 -> "HTTP_400"
      [] status = 401 -> "HTTP_401"
      [] status = 403 -> "HTTP_403"
      [] status = 404 -> "HTTP_404"
      [] status = 422 -> "HTTP_422"
      [] status = 429 -> "HTTP_429"
      [] status = 500 -> "HTTP_500"
      [] status = 503 -> "HTTP_503"
      [] OTHER -> "HTTP_"

GoErrorResponseNoFallback(status, body) ==
    CASE body.shape = "nested" ->
            [code |-> body.code, message |-> body.message, details |-> body.details]
      [] OTHER -> [code |-> "", message |-> <<>>, details |-> NoDetails]

\* json.Unmarshal(respData, &errorResp) and its fallback: ErrorResponse has the
\* single key "error", so a flat body unmarshals to an empty ErrorDetail.
GoErrorResponse(status, body) ==
    CASE body.shape = "nested" ->
            [code |-> body.code, message |-> body.message, details |-> body.details]
      [] body.shape = "flat" -> [code |-> "", message |-> <<>>, details |-> NoDetails]
      [] OTHER ->
            [code |-> HttpCode(status), message |-> body.message, details |-> NoDetails]

IntOfNothing(text) == 0

\* int(ra) of a float64 read from JSON text.
IntOf(text) ==
    CASE text = "60" -> 60
      [] text = "1.5" -> 1
      [] OTHER -> 0

\* The type is chosen by the body's code; statusCode is not read.
createErrorFromResponse(errorResp, statusCode) ==
    LET code == errorResp.code
        type ==
            CASE code = "AUTHENTICATION_FAILED" -> "AuthenticationError"
              [] code = "TEMPLATE_NOT_FOUND" -> "TemplateNotFoundError"
              [] code = "INVALID_TEMPLATE_DATA" -> "InvalidTemplateDataError"
              [] code = "INVALID_RECIPIENT" -> "InvalidRecipientError"
              [] code = "PROVIDER_ERROR" -> "ProviderError"
              [] code = "RATE_LIMIT_EXCEEDED" -> "RateLimitError"
              [] code = "VALIDATION_FAILED" -> "ValidationError"
              [] code = "TIMEOUT" -> "TimeoutError"
              [] code = "NETWORK_ERROR" -> "NetworkError"
              [] OTHER -> "HuefyError"
        details == errorResp.details
        fields ==
            CASE type = "TemplateNotFoundError" ->
                    [NoFields EXCEPT !.templateKey =
                        IF details.templateKey.t = "string"
                        THEN details.templateKey.v[1] ELSE ""]
              [] type = "InvalidTemplateDataError" ->
                    [NoFields EXCEPT !.validationErrors =
                        IF details.validationErrors.t = "array"
                        THEN details.validationErrors.v ELSE <<>>]
              [] type = "ProviderError" ->
                    [NoFields EXCEPT
                        !.provider =
                            IF details.provider.t = "string"
                            THEN details.provider.v[1] ELSE "",
                        !.providerCode =
                            IF details.providerCode.t = "string"
                            THEN details.providerCode.v[1] ELSE ""]
              [] type = "RateLimitError" ->
                    [NoFields EXCEPT !.retryAfter =
                        IF details.retryAfter.t = "number"
                        THEN IntOf(details.retryAfter.v[1]) ELSE 0]
              [] OTHER -> NoFields
    IN [Err(type, code, errorResp.message, 0) EXCEPT
            !.details = details, !.fields = fields]

\* performRequest: the error of one attempt answered with o (NoError: nil).
goPerformRequest(o) ==
    IF o.kind = "failure"
    THEN NewNetworkError(<<"request", "failed", o.failure>>)
    ELSE IF o.status >= 400
    THEN createErrorFromResponse(GoErrorResponse(o.status, o.body), o.status)
    ELSE IF o.body.shape = "success"
    THEN NoError
    ELSE Err("error", "", <<"failed", "to", "unmarshal", "response">>, 0)

isRetryableErrorAnyHuefyError(err) ==
    err.type \in {"NetworkError", "TimeoutError", "RateLimitError", "HuefyError"}

isRetryableError(err) ==
    CASE err.type \in {"NetworkError", "TimeoutError"} -> TRUE
      [] err.type = "RateLimitError" -> TRUE
      [] err.type = "HuefyError" ->
            err.code \in {"INTERNAL_SERVER_ERROR", "SERVICE_UNAVAILABLE", "BAD_GATEWAY"}
      [] OTHER -> FALSE

----------------------------------------------------------------------------
(* Swift: executeRequest, handleHTTPError; Kotlin: executeRequest,          *)
(* handleHttpError                                                          *)

\* String.lowercased() / ignoreCase = true, on the words the messages use.
Lower(w) ==
    CASE w = "Template" -> "template"
      [] w = "Not" -> "not"
      [] w = "Found" -> "found"
      [] w = "Resource" -> "resource"
      [] OTHER -> w

ContainsTemplate(msg) == \E i \in 1 .. Len(msg) : Lower(msg[i]) = "template"

ContainsNotFound(msg) ==
    \E i \in 1 .. Len(msg) - 1 :
        Lower(msg[i]) = "not" /\ Lower(msg[i + 1]) = "found"

\* HTTPURLResponse.localizedString(forStatusCode:)
LocalizedString(status) ==
    CASE status = 400 -> <<"bad", "request">>
      [] status = 401 -> <<"unauthorized">>
      [] status = 403 -> <<"forbidden">>
      [] status = 404 -> <<"not", "found">>
      [] status = 500 -> <<"internal", "server", "error">>
      [] status = 503 -> <<"service", "unavailable">>
      [] OTHER -> <<"client", "error">>

\* Both read the top-level "message" key of a JSON object body, and fall back.
SwiftErrorMessage(status, body) ==
    IF body.shape = "flat" THEN body.message ELSE LocalizedString(status)

KotlinErrorMessage(status, body) ==
    IF body.shape = "flat" THEN body.message ELSE <<"HTTP", HttpCode(status)>>

handleHTTPError404AlwaysTemplate(statusCode, errorMessage) ==
    CASE statusCode = 400 ->
            IF ContainsTemplate(errorMessage) /\ ContainsNotFound(errorMessage)
            THEN Err("templateNotFound", "", errorMessage, 0)
            ELSE Err("validationError", "", errorMessage, 0)
      [] statusCode = 401 -> Err("invalidApiKey", "", <<>>, 0)
      [] statusCode = 404 -> Err("templateNotFound", "", errorMessage, 0)
      [] statusCode = 422 -> Err("validationError", "", errorMessage, 0)
      [] statusCode = 429 -> Err("rateLimitExceeded", "", <<>>, 0)
      [] OTHER -> Err("serverError", "", errorMessage, statusCode)

handleHTTPError(statusCode, errorMessage) ==
    CASE statusCode = 400 ->
            IF ContainsTemplate(errorMessage) /\ ContainsNotFound(errorMessage)
            THEN Err("templateNotFound", "", errorMessage, 0)
            ELSE Err("validationError", "", errorMessage, 0)
      [] statusCode = 401 -> Err("invalidApiKey", "", <<>>, 0)
      [] statusCode = 404 ->
            IF ContainsTemplate(errorMessage)
            THEN Err("templateNotFound", "", errorMessage, 0)
            ELSE Err("serverError", "", errorMessage, statusCode)
      [] statusCode = 422 -> Err("validationError", "", errorMessage, 0)
      [] statusCode = 429 -> Err("rateLimitExceeded", "", <<>>, 0)
      [] OTHER -> Err("serverError", "", errorMessage, statusCode)

handleHttpError(statusCode, errorMessage) ==
    CASE statusCode = 400 ->
            IF ContainsTemplate(errorMessage) /\ ContainsNotFound(errorMessage)
            THEN Err("TemplateNotFound", "", errorMessage, 0)
            ELSE Err("ValidationError", "", errorMessage, 0)
      [] statusCode = 401 -> Err("InvalidApiKey", "", <<>>, 0)
      [] statusCode = 404 ->
            IF ContainsTemplate(errorMessage)
            THEN Err("TemplateNotFound", "", errorMessage, 0)
            ELSE Err("ServerError", "", errorMessage, statusCode)
      [] statusCode = 422 -> Err("ValidationError", "", errorMessage, 0)
      [] statusCode = 429 -> Err("RateLimitExceeded", "", <<>>, 0)
      [] OTHER -> Err("ServerError", "", errorMessage, statusCode)

\* executeRequest (Swift): session.data(for:) throws a URLError, which is no
\* HuefyError; a 2xx body that does not decode throws decodingError.
swiftExecuteRequest(o) ==
    IF o.kind = "failure"
    THEN Err("URLError", o.failure, <<>>, 0)
    ELSE IF o.status >= 400
    THEN handleHTTPError(o.status, SwiftErrorMessage(o.status, o.body))
    ELSE IF o.body.shape = "success"
    THEN NoError
    ELSE Err("decodingError", "", <<>>, 0)

\* Response.isSuccessful: the code is in [200..300).
isSuccessful(status) == 200 <= status /\ status < 300

\* executeRequest (Kotlin): execute() throws an IOException; a coroutine
\* cancelled while the blocking call runs gets the CancellationException of
\* withContext when the call returns.
kotlinExecuteRequest(o) ==
    IF o.kind = "failure"
    THEN IF o.failure = "cancelled"
         THEN Err("CancellationException", "", <<>>, 0)
         ELSE Err("IOException", o.failure, <<>>, 0)
    ELSE IF ~isSuccessful(o.status)
    THEN handleHttpError(o.status, KotlinErrorMessage(o.status, o.body))
    ELSE IF o.body.shape = "success"
    THEN NoError
    ELSE Err("DecodingError", "", <<>>, 0)

\* performRequest's catch clauses: the errors thrown on at once.
swiftThrowsAtOnce(err) ==
    err.type \in {"invalidApiKey", "templateNotFound", "validationError"}

kotlinThrowsAtOnce(err) ==
    err.type \in {"InvalidApiKey", "TemplateNotFound", "ValidationError"}

----------------------------------------------------------------------------
(* Backoff delays *)

\* fmt.Sprintf("%.0f", x) for x given in tenths: round half to even.
RoundTenths(x10) ==
    LET q == x10 \div 10
        r == x10 % 10
    IN IF r < 5 THEN q
       ELSE IF r > 5 THEN q + 1
       ELSE IF q % 2 = 0 THEN q ELSE q + 1

\* doRequest: BaseDelay * "%.0f"(Multiplier * (attempt-1)), capped by MaxDelay.
goDelay(a) ==
    Min(cfg.baseDelay * RoundTenths(cfg.multiplier * (a - 1)), cfg.maxDelay)

\* Swift: retryDelay * pow(2.0, Double(attempt - 1))
swiftDelay(a) == cfg.baseDelay * Pow(2, a - 1)

\* Kotlin: retryDelay * (2.0.pow(attempt - 1)).toLong()
kotlinDelay(a) == cfg.baseDelay * Pow(2, a - 1)

----------------------------------------------------------------------------
(* The call *)

\* The headers of one transport attempt's request.
NoHeaders ==
    [xApiKey |-> "", contentType |-> "", accept |-> "", userAgent |-> ""]

goRequestHeadersFirstAttemptOnly ==
    IF attempts = 0
    THEN [xApiKey |-> apiKey, contentType |-> "application/json",
          accept |-> "application/json", userAgent |-> "Huefy-Go-SDK/1.0.0"]
    ELSE NoHeaders

\* performRequest: req.Header.Set("X-API-Key", c.apiKey) and the three others.
goRequestHeaders ==
    [xApiKey |-> apiKey, contentType |-> "application/json",
     accept |-> "application/json", userAgent |-> "Huefy-Go-SDK/1.0.0"]

\* executeRequest: request.setValue(configuration.apiKey, forHTTPHeaderField:
\* "X-API-Key") and the three others.
swiftRequestHeaders ==
    [xApiKey |-> apiKey, contentType |-> "application/json",
     accept |-> "application/json", userAgent |-> "Huefy-iOS-SDK/1.0.0"]

\* The interceptor added to the OkHttpClient at construction, run for every
\* request the client executes.
kotlinRequestHeaders ==
    [xApiKey |-> apiKey, contentType |-> "application/json",
     accept |-> "application/json", userAgent |-> "Huefy-Android-SDK/1.0.0"]

\* No second call, no RetryConfig values, no clients and no subscribers: the
\* specifications of a single call on a single client leave these alone.
NoCall == [pc |-> "none"]

NoHeap == <<>>

NoClients == <<>>

NoSubscribers == <<>>

At(err, n) == [err EXCEPT !.at = n]

ReturnAndStartOver(ok, err) ==
    /\ pc' = "Built"
    /\ result' = [ok |-> ok, err |-> err]

Return(ok, err) ==
    /\ pc' = "Done"
    /\ result' = [ok |-> ok, err |-> err]

goLoopCondOneMore(a) == a <= cfg.retry + 1

\* for attempt := 0; attempt <= c.retryConfig.MaxRetries; attempt++
goLoopCond(a) == a <= cfg.retry

\* while attempt < configuration.retryAttempts
swiftLoopCond(a) == a < cfg.retry

\* while (attempt < configuration.retryAttempts)
kotlinLoopCond(a) == a < cfg.retry

\* lastErr = err (Go), lastError = error (Swift), lastException = e (Kotlin):
\* the variable's new value, from its old one and the error just caught.
goLastErrFirstOnly(old, err) == IF old = NoError THEN err ELSE old

goLastErr(old, err) == err

swiftLastError(old, err) == err

kotlinLastException(old, err) == err

\* doRequest at the head of its loop, with counter a and lastErr le.
goLoopHead(a, le) ==
    /\ attempt' = a
    /\ lastErr' = le
    /\ IF goLoopCond(a)
       THEN /\ result' = result
            /\ IF a > 0
               THEN pc' = "Retrying" /\ delay' = goDelay(a) /\ attempts' = attempts
               ELSE pc' = "Sending" /\ delay' = delay /\ attempts' = attempts + 1
       ELSE /\ Return(le = NoError, le)
            /\ delay' = delay
            /\ attempts' = attempts

Init ==
    /\ sdk \in SDKs
    /\ cfg \in (IF sdk = "go" THEN GoConfigs ELSE MobileConfigs)
    /\ req \in (IF sdk = "go" THEN GoRequests ELSE MobileRequests)
    /\ pc = "Built"
    /\ attempt = 0
    /\ attempts = 0
    /\ lastErr = NoError
    /\ delay = 0
    /\ last = NoOutcome
    /\ seen = {}
    /\ cancelAt = "none"
    /\ cancelAttempts = 0
    /\ result = [ok |-> FALSE, err |-> NoError]
    /\ apiKey = "test-key"
    /\ headers = NoHeaders
    /\ parked = NoCall
    /\ heap = NoHeap
    /\ clients = NoClients
    /\ subscribers = NoSubscribers

\* What the attempt in flight can end with.
Answers == IF cancelAt = "none" THEN Outcomes ELSE {Failure("cancelled")}

\* Client.SendEmail up to the first performRequest.
GoSendEmail ==
    /\ sdk = "go"
    /\ pc = "Built"
    /\ LET err == validateSendEmailRequest(req)
       IN IF err # NoError
          THEN /\ Return(FALSE, err)
               /\ UNCHANGED <<attempt, attempts, lastErr, delay>>
          ELSE goLoopHead(0, NoError)
    /\ UNCHANGED <<sdk, cfg, req, last, seen, cancelAt, cancelAttempts>>
    /\ UNCHANGED <<apiKey, parked, heap, clients, subscribers>>
    /\ headers' = IF pc' = "Sending" THEN goRequestHeaders ELSE headers

\* doRequest once performRequest has returned from an attempt answered with o:
\* it returns, or goes round its loop.
goAnswered(o) ==
    LET err == goPerformRequest(o)
    IN /\ last' = o
       /\ seen' = seen \cup {o.status}
       /\ IF err = NoError
          THEN /\ Return(TRUE, NoError)
               /\ UNCHANGED <<attempt, attempts, lastErr, delay>>
          ELSE IF ~isRetryableError(err)
          THEN /\ Return(FALSE, At(err, attempts))
               /\ lastErr' = goLastErr(lastErr, At(err, attempts))
               /\ UNCHANGED <<attempt, attempts, delay>>
          ELSE goLoopHead(attempt + 1, goLastErr(lastErr, At(err, attempts)))

\* performRequest returns to doRequest, which returns or goes round its loop.
GoRespond ==
    /\ sdk = "go"
    /\ pc = "Sending"
    /\ \E o \in Answers : goAnswered(o)
    /\ UNCHANGED <<sdk, cfg, req, cancelAt, cancelAttempts>>
    /\ UNCHANGED <<apiKey, parked, heap, clients, subscribers>>
    /\ headers' = headers

goTimerCaseAlways == TRUE

goTimerCaseNever == FALSE

\* select: <-time.After(delay) is taken.  A context cancelled during the wait
\* wakes the select on ctx.Done(); one cancelled before the select is
\* entered leaves both cases ready when the delay is zero.
goTimerCase == cancelAt = "none" \/ (cancelAt = "Sending" /\ delay = 0)

GoBackoffElapsed ==
    /\ sdk = "go"
    /\ pc = "Retrying"
    /\ goTimerCase
    /\ pc' = "Sending"
    /\ attempts' = attempts + 1
    /\ UNCHANGED <<sdk, cfg, req, attempt, lastErr, delay, last, seen,
                   cancelAt, cancelAttempts, result>>
    /\ UNCHANGED <<apiKey, parked, heap, clients, subscribers>>
    /\ headers' = goRequestHeaders

\* select: <-ctx.Done() is taken; return ctx.Err().
GoBackoffCancelled ==
    /\ sdk = "go"
    /\ pc = "Retrying"
    /\ cancelAt # "none"
    /\ Return(FALSE, Err("context", "canceled", <<"context", "canceled">>, 0))
    /\ UNCHANGED <<sdk, cfg, req, attempt, attempts, lastErr, delay, last, seen,
                   cancelAt, cancelAttempts>>
    /\ UNCHANGED <<apiKey, parked, heap, clients, subscribers>>
    /\ headers' = headers

\* Swift performRequest after a caught error le: attempt is incremented, then
\* either the delay is slept or the loop ends and the last error is thrown.
swiftAfterCatch(a, le) ==
    /\ attempt' = a
    /\ lastErr' = le
    /\ attempts' = attempts
    /\ IF swiftLoopCond(a)
       THEN pc' = "Retrying" /\ delay' = swiftDelay(a) /\ result' = result
       ELSE Return(FALSE, le) /\ delay' = delay

\* HuefyClient.sendEmail (Swift): the request is built and handed to
\* performRequest; nothing is checked before the first executeRequest.
SwiftSendEmail ==
    /\ sdk = "swift"
    /\ pc = "Built"
    /\ IF swiftLoopCond(0)
       THEN /\ pc' = "Sending"
            /\ attempts' = attempts + 1
            /\ result' = result
       ELSE /\ Return(FALSE, Err("unknown", "", <<"Request", "failed", "after", "attempts">>, 0))
            /\ attempts' = attempts
    /\ UNCHANGED <<sdk, cfg, req, attempt, lastErr, delay, last, seen,
                   cancelAt, cancelAttempts>>
    /\ UNCHANGED <<apiKey, parked, heap, clients, subscribers>>
    /\ headers' = IF pc' = "Sending" THEN swiftRequestHeaders ELSE headers

\* performRequest once executeRequest has returned or thrown, the attempt
\* answered with o: its catch clauses.
swiftAnswered(o) ==
    LET err == swiftExecuteRequest(o)
    IN /\ last' = o
       /\ seen' = seen \cup {o.status}
       /\ IF err = NoError
          THEN /\ Return(TRUE, NoError)
               /\ UNCHANGED <<attempt, attempts, lastErr, delay>>
          ELSE IF swiftThrowsAtOnce(err)
          THEN /\ Return(FALSE, At(err, attempts))
               /\ UNCHANGED <<attempt, attempts, lastErr, delay>>
          ELSE swiftAfterCatch(attempt + 1,
                   swiftLastError(lastErr, At(err, attempts)))

\* executeRequest returns or throws into performRequest's catch clauses.
SwiftRespond ==
    /\ sdk = "swift"
    /\ pc = "Sending"
    /\ \E o \in Answers : swiftAnswered(o)
    /\ UNCHANGED <<sdk, cfg, req, cancelAt, cancelAttempts>>
    /\ UNCHANGED <<apiKey, parked, heap, clients, subscribers>>
    /\ headers' = headers

\* Task.sleep returns; the loop condition holds and executeRequest is called.
SwiftBackoffElapsed ==
    /\ sdk = "swift"
    /\ pc = "Retrying"
    /\ cancelAt = "none"
    /\ pc' = "Sending"
    /\ attempts' = attempts + 1
    /\ UNCHANGED <<sdk, cfg, req, attempt, lastErr, delay, last, seen,
                   cancelAt, cancelAttempts, result>>
    /\ UNCHANGED <<apiKey, parked, heap, clients, subscribers>>
    /\ headers' = swiftRequestHeaders

\* Task.sleep throws CancellationError in a cancelled task, outside the do/catch.
SwiftBackoffCancelled ==
    /\ sdk = "swift"
    /\ pc = "Retrying"
    /\ cancelAt # "none"
    /\ Return(FALSE, Err("CancellationError", "", <<>>, 0))
    /\ UNCHANGED <<sdk, cfg, req, attempt, attempts, lastErr, delay, last, seen,
                   cancelAt, cancelAttempts>>
    /\ UNCHANGED <<apiKey, parked, heap, clients, subscribers>>
    /\ headers' = headers

\* As kotlinAfterCatch, but sleeping after the final attempt as well.
kotlinAfterCatchSleepsAlways(a, le) ==
    /\ attempt' = a
    /\ lastErr' = le
    /\ attempts' = attempts
    /\ pc' = "Retrying" /\ delay' = kotlinDelay(a) /\ result' = result

\* Kotlin performRequest after a caught error le: attempt is incremented, then
\* either the delay is slept or the loop ends and the last error is thrown.
kotlinAfterCatch(a, le) ==
    /\ attempt' = a
    /\ lastErr' = le
    /\ attempts' = attempts
    /\ IF kotlinLoopCond(a)
       THEN pc' = "Retrying" /\ delay' = kotlinDelay(a) /\ result' = result
       ELSE Return(FALSE, le) /\ delay' = delay

\* HuefyClient.sendEmail (Kotlin): the request is built and handed to
\* performRequest; nothing is checked before the first executeRequest.
KotlinSendEmail ==
    /\ sdk = "kotlin"
    /\ pc = "Built"
    /\ IF kotlinLoopCond(0)
       THEN /\ pc' = "Sending"
            /\ attempts' = attempts + 1
            /\ result' = result
       ELSE /\ Return(FALSE, Err("Unknown", "", <<"Request", "failed", "after", "attempts">>, 0))
            /\ attempts' = attempts
    /\ UNCHANGED <<sdk, cfg, req, attempt, lastErr, delay, last, seen,
                   cancelAt, cancelAttempts>>
    /\ UNCHANGED <<apiKey, parked, heap, clients, subscribers>>
    /\ headers' = IF pc' = "Sending" THEN kotlinRequestHeaders ELSE headers

\* performRequest once executeRequest has returned or thrown, the attempt
\* answered with o: its catch clauses.
kotlinAnswered(o) ==
    LET err == kotlinExecuteRequest(o)
    IN /\ last' = o
       /\ seen' = seen \cup {o.status}
       /\ IF err = NoError
          THEN /\ Return(TRUE, NoError)
               /\ UNCHANGED <<attempt, attempts, lastErr, delay>>
          ELSE IF kotlinThrowsAtOnce(err)
          THEN /\ Return(FALSE, At(err, attempts))
               /\ UNCHANGED <<attempt, attempts, lastErr, delay>>
          ELSE kotlinAfterCatch(attempt + 1,
                   kotlinLastException(lastErr, At(err, attempts)))

\* executeRequest returns or throws into performRequest's catch clauses.
KotlinRespond ==
    /\ sdk = "kotlin"
    /\ pc = "Sending"
    /\ \E o \in Answers : kotlinAnswered(o)
    /\ UNCHANGED <<sdk, cfg, req, cancelAt, cancelAttempts>>
    /\ UNCHANGED <<apiKey, parked, heap, clients, subscribers>>
    /\ headers' = headers

\* Thread.sleep returns; the loop condition holds and executeRequest is called.
KotlinBackoffElapsed ==
    /\ sdk = "kotlin"
    /\ pc = "Retrying"
    /\ cancelAt = "none"
    /\ pc' = "Sending"
    /\ attempts' = attempts + 1
    /\ UNCHANGED <<sdk, cfg, req, attempt, lastErr, delay, last, seen,
                   cancelAt, cancelAttempts, result>>
    /\ UNCHANGED <<apiKey, parked, heap, clients, subscribers>>
    /\ headers' = kotlinRequestHeaders

\* withContext(Dispatchers.IO) throws CancellationException in a cancelled
\* coroutine: before the block when already cancelled, else when Thread.sleep
\* returns. It is outside the try/catch.
KotlinBackoffCancelled ==
    /\ sdk = "kotlin"
    /\ pc = "Retrying"
    /\ cancelAt # "none"
    /\ Return(FALSE, Err("CancellationException", "", <<>>, 0))
    /\ UNCHANGED <<sdk, cfg, req, attempt, attempts, lastErr, delay, last, seen,
                   cancelAt, cancelAttempts>>
    /\ UNCHANGED <<apiKey, parked, heap, clients, subscribers>>
    /\ headers' = headers

\* The caller cancels the context / task / coroutine, or its deadline passes,
\* while an attempt is in flight or a backoff delay is waited out.
Cancel ==
    /\ pc \in {"Sending", "Retrying"}
    /\ cancelAt = "none"
    /\ cancelAt' = pc
    /\ cancelAttempts' = attempts
    /\ UNCHANGED <<sdk, cfg, req, pc, attempt, attempts, lastErr, delay, last,
                   seen, result>>
    /\ UNCHANGED <<apiKey, parked, heap, clients, subscribers>>
    /\ headers' = headers

Next ==
    \/ GoSendEmail
    \/ GoRespond
    \/ GoBackoffElapsed
    \/ GoBackoffCancelled
    \/ SwiftSendEmail
    \/ SwiftRespond
    \/ SwiftBackoffElapsed
    \/ SwiftBackoffCancelled
    \/ KotlinSendEmail
    \/ KotlinRespond
    \/ KotlinBackoffElapsed
    \/ KotlinBackoffCancelled
    \/ Cancel

Spec == Init /\ [][Next]_vars

\* The steps of the call itself: everything in Next except the caller's Cancel.
Progress ==
    \/ GoSendEmail
    \/ GoRespond
    \/ GoBackoffElapsed
    \/ GoBackoffCancelled
    \/ SwiftSendEmail
    \/ SwiftRespond
    \/ SwiftBackoffElapsed
    \/ SwiftBackoffCancelled
    \/ KotlinSendEmail
    \/ KotlinRespond
    \/ KotlinBackoffElapsed
    \/ KotlinBackoffCancelled

\* The call under the assumption that each transport attempt and each backoff
\* wait completes: httpClient.Do / URLSession.data / OkHttp execute return
\* within the configured timeout, and time.After / Task.sleep / Thread.sleep
\* return after the finite delay.  The caller need never cancel.
\* The length of a delay does not matter to whether the call ends: one base delay.
LiveInit == Init /\ cfg.baseDelay = 1000

LiveSpec == LiveInit /\ [][Next]_vars /\ WF_vars(Progress)

----------------------------------------------------------------------------
(* validateSendEmailRequest on its own, called on a request as              *)
(* TestValidateEmailRequest calls it, on a client with the default          *)
(* configuration.                                                           *)

DefaultRetryConfig ==
    [retry |-> 3, baseDelay |-> 1000, multiplier |-> 20, maxDelay |-> 30000]

\* Recipients, and "a.b" and "@." with them.
ValidateRecipients ==
    Recipients \cup { <<"a", ".", "b">>, <<"@", ".">> }

\* Provider is a *EmailProvider, and EmailProvider a string: any string can be
\* behind the pointer ("none": the pointer is nil).
ValidateProviders == KnownProviders \cup {"none", "invalid", "", "SES"}

ValidateRequests ==
    [nil : {FALSE}, templateKey : {"", "welcome-email"}, data : {"nil", "map"},
     recipient : ValidateRecipients, provider : ValidateProviders]

ValidateInit ==
    /\ sdk = "go"
    /\ cfg = DefaultRetryConfig
    /\ req \in ValidateRequests
    /\ pc = "Built"
    /\ attempt = 0
    /\ attempts = 0
    /\ lastErr = NoError
    /\ delay = 0
    /\ last = NoOutcome
    /\ seen = {}
    /\ cancelAt = "none"
    /\ cancelAttempts = 0
    /\ result = [ok |-> FALSE, err |-> NoError]
    /\ apiKey = "test-key"
    /\ headers = NoHeaders
    /\ parked = NoCall
    /\ heap = NoHeap
    /\ clients = NoClients
    /\ subscribers = NoSubscribers

\* err := client.validateSendEmailRequest(tt.request)
Validate ==
    /\ pc = "Built"
    /\ LET err == validateSendEmailRequest(req)
       IN Return(err = NoError, err)
    /\ UNCHANGED <<sdk, cfg, req, attempt, attempts, lastErr, delay, last, seen,
                   cancelAt, cancelAttempts>>
    /\ UNCHANGED <<apiKey, parked, heap, clients, subscribers>>
    /\ headers' = headers

ValidateNext == Validate

ValidateSpec == ValidateInit /\ [][ValidateNext]_vars

----------------------------------------------------------------------------
(* One call of SendBulkEmails / sendBulkEmails, on a client with the        *)
(* default configuration.  req is the BulkEmailRequest of the call.         *)

MaxBulk == 2

\* HuefyConfiguration / HuefyConfig defaults: retryAttempts 3, retryDelay 1 s.
DefaultConfiguration ==
    [retry |-> 3, baseDelay |-> 1000, multiplier |-> 20, maxDelay |-> 0]

\* The items of a bulk call: with and without a template key, with a
\* well-formed and with a malformed recipient.
BulkItems ==
    [nil : {FALSE}, templateKey : {"", "welcome-email"}, data : {"map"},
     recipient : { <<"n", "o", "t">>, <<"a", "@", "b", ".", "c">> },
     provider : {"none"}]

BulkRequests ==
    { [emails |-> e] : e \in UNION { [1 .. k -> BulkItems] : k \in 0 .. MaxBulk } }

\* fmt.Errorf("validation failed for email %d: %w", i, err): a *fmt.wrapError
\* with the index in its text and err behind Unwrap.
WrapError(i, err) ==
    [type |-> "wrapError", code |-> "", msg |-> <<"validation", "failed", "for", "email">>,
     status |-> 0, at |-> 0, index |-> i, wrapped |-> err]

BulkInit ==
    /\ sdk \in SDKs
    /\ cfg = (IF sdk = "go" THEN DefaultRetryConfig ELSE DefaultConfiguration)
    /\ req \in BulkRequests
    /\ pc = "Built"
    /\ attempt = 0
    /\ attempts = 0
    /\ lastErr = NoError
    /\ delay = 0
    /\ last = NoOutcome
    /\ seen = {}
    /\ cancelAt = "none"
    /\ cancelAttempts = 0
    /\ result = [ok |-> FALSE, err |-> NoError]
    /\ apiKey = "test-key"
    /\ headers = NoHeaders
    /\ parked = NoCall
    /\ heap = NoHeap
    /\ clients = NoClients
    /\ subscribers = NoSubscribers

\* Client.SendBulkEmails up to the first performRequest; range indexes from 0.
GoSendBulkEmails ==
    /\ sdk = "go"
    /\ pc = "Built"
    /\ LET emails == req.emails
           bad == { i \in 1 .. Len(emails) : validateSendEmailRequest(emails[i]) # NoError }
       IN IF Len(emails) = 0
          THEN /\ Return(FALSE, NewValidationError(<<"emails", "slice", "cannot", "be", "empty">>))
               /\ UNCHANGED <<attempt, attempts, lastErr, delay>>
          ELSE IF bad # {}
          THEN /\ LET i == CHOOSE j \in bad : \A k \in bad : j <= k
                  IN Return(FALSE, WrapError(i - 1, validateSendEmailRequest(emails[i])))
               /\ UNCHANGED <<attempt, attempts, lastErr, delay>>
          ELSE goLoopHead(0, NoError)
    /\ UNCHANGED <<sdk, cfg, req, last, seen, cancelAt, cancelAttempts>>
    /\ UNCHANGED <<apiKey, parked, heap, clients, subscribers>>
    /\ headers' = IF pc' = "Sending" THEN goRequestHeaders ELSE headers

\* HuefyClient.sendBulkEmails (Swift): the emails are wrapped in a
\* BulkEmailRequest and handed to performRequest.
SwiftSendBulkEmails ==
    /\ sdk = "swift"
    /\ pc = "Built"
    /\ IF swiftLoopCond(0)
       THEN /\ pc' = "Sending"
            /\ attempts' = attempts + 1
            /\ result' = result
       ELSE /\ Return(FALSE, Err("unknown", "", <<"Request", "failed", "after", "attempts">>, 0))
            /\ attempts' = attempts
    /\ UNCHANGED <<sdk, cfg, req, attempt, lastErr, delay, last, seen,
                   cancelAt, cancelAttempts>>
    /\ UNCHANGED <<apiKey, parked, heap, clients, subscribers>>
    /\ headers' = IF pc' = "Sending" THEN swiftRequestHeaders ELSE headers

\* HuefyClient.sendBulkEmails (Kotlin): the same.
KotlinSendBulkEmails ==
    /\ sdk = "kotlin"
    /\ pc = "Built"
    /\ IF kotlinLoopCond(0)
       THEN /\ pc' = "Sending"
            /\ attempts' = attempts + 1
            /\ result' = result
       ELSE /\ Return(FALSE, Err("Unknown", "", <<"Request", "failed", "after", "attempts">>, 0))
            /\ attempts' = attempts
    /\ UNCHANGED <<sdk, cfg, req, attempt, lastErr, delay, last, seen,
                   cancelAt, cancelAttempts>>
    /\ UNCHANGED <<apiKey, parked, heap, clients, subscribers>>
    /\ headers' = IF pc' = "Sending" THEN kotlinRequestHeaders ELSE headers

\* BulkEmailResult: Success bool, with a Result or an Error.
BulkItemOutcomes == {"sent", "failed"}

\* {"results": [...]}: the server decides how many results it sends.
BulkSuccessBody(results) ==
    [shape |-> "success", code |-> "", message |-> <<"ok">>,
     details |-> NoDetails, results |-> results]

BulkResponses ==
    { Response(200, BulkSuccessBody(rs)) :
        rs \in UNION { [1 .. k -> BulkItemOutcomes] : k \in 0 .. MaxBulk } }

\* json.NewDecoder(resp.Body).Decode(&resp) / jsonDecoder.decode /
\* adapter.fromJson: the results array of the body, element by element.
BulkResults ==
    IF result.ok /\ "results" \in DOMAIN last.body THEN last.body.results ELSE <<>>

\* The attempt of a bulk call is answered with a bulk response body.
GoBulkRespond ==
    /\ sdk = "go"
    /\ pc = "Sending"
    /\ cancelAt = "none"
    /\ \E o \in BulkResponses : goAnswered(o)
    /\ UNCHANGED <<sdk, cfg, req, cancelAt, cancelAttempts>>
    /\ UNCHANGED <<apiKey, parked, heap, clients, subscribers>>
    /\ headers' = headers

SwiftBulkRespond ==
    /\ sdk = "swift"
    /\ pc = "Sending"
    /\ cancelAt = "none"
    /\ \E o \in BulkResponses : swiftAnswered(o)
    /\ UNCHANGED <<sdk, cfg, req, cancelAt, cancelAttempts>>
    /\ UNCHANGED <<apiKey, parked, heap, clients, subscribers>>
    /\ headers' = headers

KotlinBulkRespond ==
    /\ sdk = "kotlin"
    /\ pc = "Sending"
    /\ cancelAt = "none"
    /\ \E o \in BulkResponses : kotlinAnswered(o)
    /\ UNCHANGED <<sdk, cfg, req, cancelAt, cancelAttempts>>
    /\ UNCHANGED <<apiKey, parked, heap, clients, subscribers>>
    /\ headers' = headers

BulkNext ==
    \/ GoSendBulkEmails
    \/ GoRespond
    \/ GoBulkRespond
    \/ SwiftBulkRespond
    \/ KotlinBulkRespond
    \/ GoBackoffElapsed
    \/ GoBackoffCancelled
    \/ SwiftSendBulkEmails
    \/ SwiftRespond
    \/ SwiftBackoffElapsed
    \/ SwiftBackoffCancelled
    \/ KotlinSendBulkEmails
    \/ KotlinRespond
    \/ KotlinBackoffElapsed
    \/ KotlinBackoffCancelled
    \/ Cancel

BulkSpec == BulkInit /\ [][BulkNext]_vars

----------------------------------------------------------------------------
(* The classification of one answered attempt: the first attempt of a send  *)
(* call on a client with the default configuration, answered with an error  *)
(* response from a wider set of bodies.                                     *)

\* The ErrorCode constants.
ErrorCodes ==
    {"AUTHENTICATION_FAILED", "TEMPLATE_NOT_FOUND", "INVALID_TEMPLATE_DATA",
     "INVALID_RECIPIENT", "PROVIDER_ERROR", "RATE_LIMIT_EXCEEDED",
     "VALIDATION_FAILED", "INTERNAL_SERVER_ERROR", "SERVICE_UNAVAILABLE",
     "BAD_GATEWAY", "TIMEOUT", "NETWORK_ERROR"}

ClassifyCodes == ErrorCodes \cup {"UNKNOWN_ERROR", "FORBIDDEN"}

ClassifyMessages ==
    { <<"Template", "not", "found">>, <<"Unknown", "error", "occurred">>,
      <<"Invalid", "Template", "data">> }

\* The details of TestCreateErrorFromResponse, in one map.
FullDetails ==
    [templateKey |-> JString("welcome-email"),
     validationErrors |-> JArray(<<"name is required", "email is required">>),
     provider |-> JString("ses"),
     providerCode |-> JString("MessageRejected"),
     retryAfter |-> JNumber("60")]

\* Details whose values have other JSON types than the SDK asserts.
MistypedDetails ==
    [templateKey |-> JNumber("60"),
     validationErrors |-> JString("name is required"),
     provider |-> JNumber("60"),
     providerCode |-> Absent,
     retryAfter |-> JString("60")]

FractionDetails == [NoDetails EXCEPT !.retryAfter = JNumber("1.5")]

ClassifyDetails == {NoDetails, FullDetails, MistypedDetails, FractionDetails}

ClassifyStatuses == {400, 401, 403, 404, 422, 429, 500, 503}

ClassifyBodies ==
    { NestedBodyWith(c, m, d) : c \in ClassifyCodes, m \in ClassifyMessages,
                                d \in ClassifyDetails }
        \cup { FlatBody(c, m) : c \in ClassifyCodes, m \in ClassifyMessages }
        \cup {GarbageBody}

ClassifyResponses ==
    { Response(st, b) : st \in ClassifyStatuses, b \in ClassifyBodies }

\* The request of the package documentation.
DocRequest ==
    [nil |-> FALSE, templateKey |-> "welcome-email", data |-> "map",
     recipient |-> <<"a", "@", "b", ".", "c">>, provider |-> "none"]

\* The first attempt of the call is in flight.
ClassifyInit ==
    /\ sdk \in SDKs
    /\ cfg = (IF sdk = "go" THEN DefaultRetryConfig ELSE DefaultConfiguration)
    /\ req = DocRequest
    /\ pc = "Sending"
    /\ attempt = 0
    /\ attempts = 1
    /\ lastErr = NoError
    /\ delay = 0
    /\ last = NoOutcome
    /\ seen = {}
    /\ cancelAt = "none"
    /\ cancelAttempts = 0
    /\ result = [ok |-> FALSE, err |-> NoError]
    /\ apiKey = "test-key"
    /\ headers = (CASE sdk = "go" -> goRequestHeaders
                   [] sdk = "swift" -> swiftRequestHeaders
                   [] OTHER -> kotlinRequestHeaders)
    /\ parked = NoCall
    /\ heap = NoHeap
    /\ clients = NoClients
    /\ subscribers = NoSubscribers

GoClassify ==
    /\ sdk = "go"
    /\ pc = "Sending"
    /\ \E o \in ClassifyResponses : goAnswered(o)
    /\ UNCHANGED <<sdk, cfg, req, cancelAt, cancelAttempts>>
    /\ UNCHANGED <<apiKey, parked, heap, clients, subscribers>>
    /\ headers' = headers

SwiftClassify ==
    /\ sdk = "swift"
    /\ pc = "Sending"
    /\ \E o \in ClassifyResponses : swiftAnswered(o)
    /\ UNCHANGED <<sdk, cfg, req, cancelAt, cancelAttempts>>
    /\ UNCHANGED <<apiKey, parked, heap, clients, subscribers>>
    /\ headers' = headers

KotlinClassify ==
    /\ sdk = "kotlin"
    /\ pc = "Sending"
    /\ \E o \in ClassifyResponses : kotlinAnswered(o)
    /\ UNCHANGED <<sdk, cfg, req, cancelAt, cancelAttempts>>
    /\ UNCHANGED <<apiKey, parked, heap, clients, subscribers>>
    /\ headers' = headers

ClassifyNext ==
    \/ GoClassify
    \/ SwiftClassify
    \/ KotlinClassify

ClassifySpec == ClassifyInit /\ [][ClassifyNext]_vars

----------------------------------------------------------------------------
(* Construction: clients are made with NewClient / HuefyClient.init, and    *)
(* the caller writes to the RetryConfig values it can reach.  No call runs. *)

MaxClients == 2

ClientIds == 1 .. MaxClients

\* The retry settings a RetryConfig / HuefyConfiguration is given here: the
\* defaults and those of TestNewClient and testConfigurationInitialization.
FrameRetries == {0, 1, 3, 5}

FrameDelays == {1000, 2000}

FrameConfigs == [retry : FrameRetries, baseDelay : FrameDelays]

\* var DefaultRetryConfig = &RetryConfig{MaxRetries: 3, BaseDelay: time.Second, ...}
\* and HuefyConfiguration.init's retryAttempts: Int = 3, retryDelay = 1.0.
FrameDefault == [retry |-> 3, baseDelay |-> 1000]

\* HuefyConfiguration.productionHTTPEndpoint and localHTTPEndpoint.
productionHTTPEndpoint == "https://api.huefy.dev/api/v1/sdk"

localHTTPEndpoint == "http://localhost:8080/api/v1/sdk"

\* HuefyConfiguration.init(apiKey:baseURL:local:timeout:retryAttempts:retryDelay:);
\* "none" is a nil baseURL.  Times are milliseconds.
HuefyConfiguration(key, url, isLocal, t, n, d) ==
    [apiKey |-> key, customBaseURL |-> url, local |-> isLocal, timeout |-> t,
     retry |-> n, baseDelay |-> d]

\* HuefyConfiguration(apiKey: key): every other parameter at its default.
HuefyConfigurationOf(key) == HuefyConfiguration(key, "none", FALSE, 30000, 3, 1000)

\* var baseURL: URL, the resolved base URL.
baseURL(config) ==
    IF config.customBaseURL # "none" THEN config.customBaseURL
    ELSE IF config.local THEN localHTTPEndpoint
    ELSE productionHTTPEndpoint

\* The configurations a Swift caller builds here: the default one and those
\* with the values of testConfigurationInitialization.
SwiftFrameConfigs ==
    { HuefyConfiguration(apiKey, url, isLocal, t, n, 1000) :
        url \in {"none", "https://test.api.com"}, isLocal \in BOOLEAN,
        t \in {30000, 60000}, n \in {3, 5} }

NoClient == [made |-> FALSE]

\* NewClient: retryConfig: DefaultRetryConfig, then each option is applied;
\* WithRetryConfig(config) stores config, the pointer it was given.
GoClient(key, cell) == [made |-> TRUE, apiKey |-> key, retryConfig |-> cell]

\* HuefyClient.init(configuration:): self.configuration = configuration, a
\* copy of the struct value.
SwiftClient(config) == [made |-> TRUE, apiKey |-> apiKey, configuration |-> config]

\* The retry policy a client's calls read: c.retryConfig.MaxRetries through
\* the pointer (Go), configuration.retryAttempts in the stored value (Swift).
RetryPolicy(h, c) ==
    IF sdk = "go" THEN h[c.retryConfig] ELSE c.configuration

callVars == <<cfg, req, pc, attempt, attempts, lastErr, delay, last, seen,
              cancelAt, cancelAttempts, result, headers, parked, subscribers>>

ConfigInit ==
    /\ sdk \in {"go", "swift"}
    /\ cfg = DefaultRetryConfig
    /\ req = DocRequest
    /\ pc = "Built"
    /\ attempt = 0
    /\ attempts = 0
    /\ lastErr = NoError
    /\ delay = 0
    /\ last = NoOutcome
    /\ seen = {}
    /\ cancelAt = "none"
    /\ cancelAttempts = 0
    /\ result = [ok |-> FALSE, err |-> NoError]
    /\ apiKey = "test-key"
    /\ headers = NoHeaders
    /\ parked = NoCall
    /\ heap \in (IF sdk = "go"
                 THEN [default : {FrameDefault}, caller : FrameConfigs]
                 ELSE [default : {HuefyConfigurationOf(apiKey)},
                       caller : SwiftFrameConfigs])
    /\ clients = [id \in ClientIds |-> NoClient]
    /\ subscribers = NoSubscribers

\* client := NewClient(apiKey) or NewClient(apiKey, WithRetryConfig(config))
GoNewClient ==
    /\ sdk = "go"
    /\ \E id \in ClientIds, cell \in {"default", "caller"} :
         /\ ~clients[id].made
         /\ clients' = [clients EXCEPT ![id] = GoClient(apiKey, cell)]
    /\ UNCHANGED <<sdk, apiKey, heap, callVars>>

\* DefaultRetryConfig.MaxRetries = n or DefaultRetryConfig.BaseDelay = d: the
\* package-level variable is exported and points at a mutable struct.
GoSetDefaultRetryConfig ==
    /\ sdk = "go"
    /\ \/ \E n \in FrameRetries \ {heap.default.retry} :
            heap' = [heap EXCEPT !.default.retry = n]
       \/ \E d \in FrameDelays \ {heap.default.baseDelay} :
            heap' = [heap EXCEPT !.default.baseDelay = d]
    /\ UNCHANGED <<sdk, apiKey, clients, callVars>>

\* config.MaxRetries = n or config.BaseDelay = d, on the value whose address
\* the caller passes or passed to WithRetryConfig.
GoSetCallerRetryConfig ==
    /\ sdk = "go"
    /\ \/ \E n \in FrameRetries \ {heap.caller.retry} :
            heap' = [heap EXCEPT !.caller.retry = n]
       \/ \E d \in FrameDelays \ {heap.caller.baseDelay} :
            heap' = [heap EXCEPT !.caller.baseDelay = d]
    /\ UNCHANGED <<sdk, apiKey, clients, callVars>>

\* HuefyClient(configuration: HuefyConfiguration(apiKey: key)) or
\* HuefyClient(configuration: config)
SwiftNewClient ==
    /\ sdk = "swift"
    /\ \E id \in ClientIds, cell \in {"default", "caller"} :
         /\ ~clients[id].made
         /\ clients' = [clients EXCEPT ![id] = SwiftClient(heap[cell])]
    /\ UNCHANGED <<sdk, apiKey, heap, callVars>>

\* config = HuefyConfiguration(apiKey: key, baseURL: url, timeout: t, ...):
\* the struct's fields are let, so the caller's variable can only be given a
\* new value.
SwiftSetCallerConfiguration ==
    /\ sdk = "swift"
    /\ \E c \in SwiftFrameConfigs \ {heap.caller} :
         heap' = [heap EXCEPT !.caller = c]
    /\ UNCHANGED <<sdk, apiKey, clients, callVars>>

ConfigNext ==
    \/ GoNewClient
    \/ GoSetDefaultRetryConfig
    \/ GoSetCallerRetryConfig
    \/ SwiftNewClient
    \/ SwiftSetCallerConfiguration

ConfigSpec == ConfigInit /\ [][ConfigNext]_vars

----------------------------------------------------------------------------
(* Two calls of sendEmail issued concurrently on one client.  The call      *)
(* variables hold the local state of the call that is running; parked holds *)
(* that of the other, and Switch hands the processor over at any point.     *)
(* The client's fields sdk, cfg and apiKey are all the calls share.         *)

Calls == {1, 2}

\* The local state of the running call: the parameters and local variables of
\* SendEmail / doRequest / performRequest (sendEmail / performRequest /
\* executeRequest), its context and what it has returned.
Local(id) ==
    [id |-> id, req |-> req, pc |-> pc, attempt |-> attempt,
     attempts |-> attempts, lastErr |-> lastErr, delay |-> delay,
     last |-> last, seen |-> seen, cancelAt |-> cancelAt,
     cancelAttempts |-> cancelAttempts, result |-> result,
     headers |-> headers]

\* As Resume, were lastErr a field of the client instead of a local variable.
ResumeSharedLastErr(l) ==
    /\ req' = l.req
    /\ pc' = l.pc
    /\ attempt' = l.attempt
    /\ attempts' = l.attempts
    /\ lastErr' = lastErr
    /\ delay' = l.delay
    /\ last' = l.last
    /\ seen' = l.seen
    /\ cancelAt' = l.cancelAt
    /\ cancelAttempts' = l.cancelAttempts
    /\ result' = l.result
    /\ headers' = l.headers

\* The call whose local state is l runs on: `var lastErr error`, `attempt`,
\* `delay` (Go), `var attempt = 0`, `var lastError: Error?` (Swift, Kotlin)
\* are locals of the call's own activation.
Resume(l) ==
    /\ req' = l.req
    /\ pc' = l.pc
    /\ attempt' = l.attempt
    /\ attempts' = l.attempts
    /\ lastErr' = l.lastErr
    /\ delay' = l.delay
    /\ last' = l.last
    /\ seen' = l.seen
    /\ cancelAt' = l.cancelAt
    /\ cancelAttempts' = l.cancelAttempts
    /\ result' = l.result
    /\ headers' = l.headers

RunningId == 3 - parked.id

\* Both calls use the client's one configuration: two attempts at most.
ConcConfigs ==
    IF sdk = "go"
    THEN {[retry |-> 1, baseDelay |-> 1000, multiplier |-> 20, maxDelay |-> 30000]}
    ELSE {[retry |-> 2, baseDelay |-> 1000, multiplier |-> 20, maxDelay |-> 0]}

ConcInit ==
    /\ sdk \in SDKs
    /\ cfg \in ConcConfigs
    /\ req = DocRequest
    /\ pc = "Built"
    /\ attempt = 0
    /\ attempts = 0
    /\ lastErr = NoError
    /\ delay = 0
    /\ last = NoOutcome
    /\ seen = {}
    /\ cancelAt = "none"
    /\ cancelAttempts = 0
    /\ result = [ok |-> FALSE, err |-> NoError]
    /\ apiKey = "test-key"
    /\ headers = NoHeaders
    /\ parked = Local(2)
    /\ heap = NoHeap
    /\ clients = NoClients
    /\ subscribers = NoSubscribers

\* The scheduler runs the other call (goroutine, task, coroutine) while this
\* one is suspended: at an await, in a sleep or select, or preempted.
Switch ==
    /\ parked.pc # "Done"
    /\ parked' = Local(RunningId)
    /\ Resume(parked)
    /\ UNCHANGED <<sdk, cfg, apiKey, heap, clients, subscribers>>

ConcNext ==
    \/ GoSendEmail
    \/ GoRespond
    \/ GoBackoffElapsed
    \/ GoBackoffCancelled
    \/ SwiftSendEmail
    \/ SwiftRespond
    \/ SwiftBackoffElapsed
    \/ SwiftBackoffCancelled
    \/ KotlinSendEmail
    \/ KotlinRespond
    \/ KotlinBackoffElapsed
    \/ KotlinBackoffCancelled
    \/ Cancel
    \/ Switch

ConcSpec == ConcInit /\ [][ConcNext]_vars

----------------------------------------------------------------------------
(* One call of sendEmail on a client with the default retry configuration   *)
(* and one of several API keys: what each attempt's request carries.        *)

\* The keys of the tests: NewClient("test-api-key"), apiKey: "test-key".
ApiKeys == {"test-api-key", "test-key"}

HeaderInit ==
    /\ sdk \in SDKs
    /\ cfg = (IF sdk = "go" THEN DefaultRetryConfig ELSE DefaultConfiguration)
    /\ req = DocRequest
    /\ pc = "Built"
    /\ attempt = 0
    /\ attempts = 0
    /\ lastErr = NoError
    /\ delay = 0
    /\ last = NoOutcome
    /\ seen = {}
    /\ cancelAt = "none"
    /\ cancelAttempts = 0
    /\ result = [ok |-> FALSE, err |-> NoError]
    /\ apiKey \in ApiKeys
    /\ headers = NoHeaders
    /\ parked = NoCall
    /\ heap = NoHeap
    /\ clients = NoClients
    /\ subscribers = NoSubscribers

HeaderSpec == HeaderInit /\ [][Next]_vars

----------------------------------------------------------------------------
(* The Go typed error constructors and the type checkers (errors.go): an    *)
(* error is built by one constructor call and every checker is applied.     *)

NewAuthenticationError(message) ==
    Err("AuthenticationError", "AUTHENTICATION_FAILED", message, 0)

\* Message: fmt.Sprintf("Template not found: %s", templateKey)
NewTemplateNotFoundError(templateKey) ==
    [Err("TemplateNotFoundError", "TEMPLATE_NOT_FOUND",
         <<"Template", "not", "found:", templateKey>>, 0) EXCEPT
        !.details = [NoDetails EXCEPT !.templateKey = JString(templateKey)],
        !.fields = [NoFields EXCEPT !.templateKey = templateKey]]

NewInvalidTemplateDataError(message, validationErrors) ==
    [Err("InvalidTemplateDataError", "INVALID_TEMPLATE_DATA", message, 0) EXCEPT
        !.details = [NoDetails EXCEPT !.validationErrors = JArray(validationErrors)],
        !.fields = [NoFields EXCEPT !.validationErrors = validationErrors]]

NewProviderError(provider, providerCode, message) ==
    [Err("ProviderError", "PROVIDER_ERROR", message, 0) EXCEPT
        !.details = [NoDetails EXCEPT !.provider = JString(provider),
                                      !.providerCode = JString(providerCode)],
        !.fields = [NoFields EXCEPT !.provider = provider,
                                    !.providerCode = providerCode]]

\* retryAfter is an int; the details hold it as a number (here: its text).
NewRateLimitError(message, retryAfter) ==
    [Err("RateLimitError", "RATE_LIMIT_EXCEEDED", message, 0) EXCEPT
        !.details = [NoDetails EXCEPT
                        !.retryAfter = JNumber(IF retryAfter = 60 THEN "60" ELSE "0")],
        !.fields = [NoFields EXCEPT !.retryAfter = retryAfter]]

NewTimeoutError(message) == Err("TimeoutError", "TIMEOUT", message, 0)

\* Errors that are no Huefy errors: assert.AnError / errors.New, ctx.Err().
StandardError(message) == Err("errorString", "", message, 0)

\* The type assertions err.(*T): true of the dynamic type *T alone; an
\* embedded *HuefyError or a wrapped error does not count.
IsHuefyError(err) == err.type = "HuefyError"

IsAuthenticationError(err) == err.type = "AuthenticationError"

IsTemplateNotFoundError(err) == err.type = "TemplateNotFoundError"

IsInvalidTemplateDataError(err) == err.type = "InvalidTemplateDataError"

IsInvalidRecipientError(err) == err.type = "InvalidRecipientError"

IsProviderError(err) == err.type = "ProviderError"

IsRateLimitError(err) == err.type = "RateLimitError"

IsNetworkErrorByCode(err) == err.code \in {"NETWORK_ERROR", "TIMEOUT"}

IsNetworkError(err) == err.type = "NetworkError"

IsTimeoutError(err) == err.type = "TimeoutError"

IsValidationError(err) == err.type = "ValidationError"

\* The nine specific checkers that return true of err, by name.
TrueCheckers(err) ==
    { c \in {"IsAuthenticationError", "IsTemplateNotFoundError",
              "IsInvalidTemplateDataError", "IsInvalidRecipientError",
              "IsProviderError", "IsRateLimitError", "IsNetworkError",
              "IsTimeoutError", "IsValidationError"} :
        CASE c = "IsAuthenticationError" -> IsAuthenticationError(err)
          [] c = "IsTemplateNotFoundError" -> IsTemplateNotFoundError(err)
          [] c = "IsInvalidTemplateDataError" -> IsInvalidTemplateDataError(err)
          [] c = "IsInvalidRecipientError" -> IsInvalidRecipientError(err)
          [] c = "IsProviderError" -> IsProviderError(err)
          [] c = "IsRateLimitError" -> IsRateLimitError(err)
          [] c = "IsNetworkError" -> IsNetworkError(err)
          [] c = "IsTimeoutError" -> IsTimeoutError(err)
          [] OTHER -> IsValidationError(err) }

TypedConstructors ==
    {"NewAuthenticationError", "NewTemplateNotFoundError",
     "NewInvalidTemplateDataError", "NewInvalidRecipientError",
     "NewProviderError", "NewRateLimitError", "NewNetworkError",
     "NewTimeoutError", "NewValidationError"}

\* The calls that build the error: a constructor or another source of
\* errors, with the arguments of TestErrorTypes.
ErrorCalls ==
    [fn : TypedConstructors \cup {"errors.New", "fmt.Errorf"},
     message : { <<"Invalid", "API", "key">>, <<"Request", "timeout">>, <<>> },
     templateKey : {"welcome-email", ""},
     provider : {"ses", "sendgrid"},
     retryAfter : {0, 60}]

\* The error the call returns.
ErrorOf(call) ==
    CASE call.fn = "NewAuthenticationError" -> NewAuthenticationError(call.message)
      [] call.fn = "NewTemplateNotFoundError" -> NewTemplateNotFoundError(call.templateKey)
      [] call.fn = "NewInvalidTemplateDataError" ->
            NewInvalidTemplateDataError(call.message, <<"name is required">>)
      [] call.fn = "NewInvalidRecipientError" -> NewInvalidRecipientError(call.message)
      [] call.fn = "NewProviderError" ->
            NewProviderError(call.provider, "MessageRejected", call.message)
      [] call.fn = "NewRateLimitError" -> NewRateLimitError(call.message, call.retryAfter)
      [] call.fn = "NewNetworkError" -> NewNetworkError(call.message)
      [] call.fn = "NewTimeoutError" -> NewTimeoutError(call.message)
      [] call.fn = "NewValidationError" -> NewValidationError(call.message)
      [] call.fn = "fmt.Errorf" -> WrapError(1, NewValidationError(call.message))
      [] OTHER -> StandardError(call.message)

TypeInit ==
    /\ sdk = "go"
    /\ cfg = DefaultRetryConfig
    /\ req \in ErrorCalls
    /\ pc = "Built"
    /\ attempt = 0
    /\ attempts = 0
    /\ lastErr = NoError
    /\ delay = 0
    /\ last = NoOutcome
    /\ seen = {}
    /\ cancelAt = "none"
    /\ cancelAttempts = 0
    /\ result = [ok |-> FALSE, err |-> NoError]
    /\ apiKey = "test-key"
    /\ headers = NoHeaders
    /\ parked = NoCall
    /\ heap = NoHeap
    /\ clients = NoClients
    /\ subscribers = NoSubscribers

\* err := NewXError(...); then every checker is called on err.
TypeCheck ==
    /\ pc = "Built"
    /\ pc' = "Done"
    /\ lastErr' = ErrorOf(req)
    /\ result' = [ok |-> FALSE, err |-> ErrorOf(req),
                  checkers |-> TrueCheckers(ErrorOf(req))]
    /\ UNCHANGED <<sdk, cfg, req, attempt, attempts, delay, last, seen,
                   cancelAt, cancelAttempts>>
    /\ UNCHANGED <<apiKey, parked, heap, clients, subscribers>>
    /\ headers' = headers

TypeNext == TypeCheck

TypeSpec == TypeInit /\ [][TypeNext]_vars

----------------------------------------------------------------------------
(* EncodeSpec: the Swift SendEmailRequest is encoded into the JSON object *)
(* of the request body.  `req` is the request, `result.body` the object,  *)
(* a function from the keys to the value written under each.              *)

DataKeys == {"name", "recipient", "template_key", "provider"}
DataValues == {"John", "eve@evil.example"}

\* data: [String: Any], here every dictionary of strings over DataKeys.
DataPayloads == UNION { [ks -> DataValues] : ks \in SUBSET DataKeys }

EncodeRequests ==
    [templateKey : {"welcome-email", "reset-password"},
     recipient : {"john@example.com"},
     provider : {"none", "ses"},
     data : DataPayloads]

BodyKeys == {"template_key", "data", "recipient", "provider"} \cup DataKeys

\* CodingKeys: the key each stored property is written under.
CodingKeys ==
    [templateKey |-> "template_key", data |-> "data",
     recipient |-> "recipient", provider |-> "provider"]

\* The keyed container after the three encode calls on `container`.
EncodeOwnFields(r) ==
    [k \in BodyKeys |->
        CASE k = CodingKeys.templateKey -> JString(r.templateKey)
          [] k = CodingKeys.recipient -> JString(r.recipient)
          [] k = CodingKeys.provider /\ r.provider # "none" -> JString(r.provider)
          [] OTHER -> Absent]

\* encode(to:).  The second encoder.container(keyedBy:) call asks the same
\* encoder, at the same coding path, for a keyed container: JSONEncoder
\* hands back the dictionary the first container writes into, so every data
\* entry is written at the top level of the body, over whatever is there,
\* and nothing is written under "data".
SendEmailRequestEncode(r) ==
    [k \in BodyKeys |->
        IF k \in DOMAIN r.data THEN JString(r.data[k]) ELSE EncodeOwnFields(r)[k]]

EncodeInit ==
    /\ sdk = "swift"
    /\ cfg = DefaultRetryConfig
    /\ req \in EncodeRequests
    /\ pc = "Built"
    /\ attempt = 0
    /\ attempts = 0
    /\ lastErr = NoError
    /\ delay = 0
    /\ last = NoOutcome
    /\ seen = {}
    /\ cancelAt = "none"
    /\ cancelAttempts = 0
    /\ result = [ok |-> FALSE, err |-> NoError]
    /\ apiKey = "test-key"
    /\ headers = NoHeaders
    /\ parked = NoCall
    /\ heap = NoHeap
    /\ clients = NoClients
    /\ subscribers = NoSubscribers

\* request.httpBody = try jsonEncoder.encode(body)
SwiftEncodeBody ==
    /\ pc = "Built"
    /\ pc' = "Done"
    /\ result' = [ok |-> TRUE, body |-> SendEmailRequestEncode(req)]
    /\ UNCHANGED <<sdk, cfg, req, attempt, attempts, lastErr, delay, last, seen,
                   cancelAt, cancelAttempts>>
    /\ UNCHANGED <<apiKey, parked, heap, clients, subscribers>>
    /\ headers' = headers

EncodeNext == SwiftEncodeBody

EncodeSpec == EncodeInit /\ [][EncodeNext]_vars

-----------------------------------------------------------------------------
(* EqualitySpec: Swift's HuefyError values and the == written for them.   *)
(* A value is its case with its payloads: `str` the String (or the        *)
(* description of the wrapped Error), `opt` the optional payload ("nil":  *)
(* none) and `num` the status code.  `req` holds three errors and         *)
(* `result` what == answers for them.                                     *)

HuefyErrorOf(c, str, opt, num) == [case |-> c, str |-> str, opt |-> opt, num |-> num]

\* enum HuefyError, each case with a few payloads.
HuefyErrors ==
    {HuefyErrorOf("invalidApiKey", "", "nil", 0), HuefyErrorOf("invalidURL", "", "nil", 0)}
        \cup {HuefyErrorOf("networkError", e, "nil", 0) : e \in {"timedOut", "notConnected"}}
        \cup {HuefyErrorOf("decodingError", "dataCorrupted", "nil", 0)}
        \cup {HuefyErrorOf("encodingError", "invalidValue", "nil", 0)}
        \cup {HuefyErrorOf("templateNotFound", k, "nil", 0) : k \in {"test1", "test2"}}
        \cup {HuefyErrorOf("validationError", "msg", d, 0) : d \in {"nil", "details"}}
        \cup {HuefyErrorOf("rateLimitExceeded", "", r, 0) : r \in {"nil", "30.0"}}
        \cup {HuefyErrorOf("providerError", "ses", c, 0) : c \in {"nil", "E1"}}
        \cup {HuefyErrorOf("serverError", "", m, n) : m \in {"nil", "error"}, n \in {500, 503}}
        \cup {HuefyErrorOf("unknown", m, "nil", 0) : m \in {"a", "b"}}

\* static func == (lhs: HuefyError, rhs: HuefyError) -> Bool
HuefyErrorEquals(lhs, rhs) ==
    CASE lhs.case = "invalidApiKey" /\ rhs.case = "invalidApiKey" -> TRUE
      [] lhs.case = "invalidURL" /\ rhs.case = "invalidURL" -> TRUE
      [] lhs.case = "templateNotFound" /\ rhs.case = "templateNotFound" ->
            lhs.str = rhs.str
      [] lhs.case = "validationError" /\ rhs.case = "validationError" ->
            lhs.str = rhs.str
      [] lhs.case = "rateLimitExceeded" /\ rhs.case = "rateLimitExceeded" ->
            lhs.opt = rhs.opt
      [] lhs.case = "providerError" /\ rhs.case = "providerError" ->
            lhs.str = rhs.str /\ lhs.opt = rhs.opt
      [] lhs.case = "serverError" /\ rhs.case = "serverError" ->
            lhs.num = rhs.num /\ lhs.opt = rhs.opt
      [] lhs.case = "unknown" /\ rhs.case = "unknown" -> lhs.str = rhs.str
      [] OTHER -> FALSE

EqualityInit ==
    /\ sdk = "swift"
    /\ cfg = DefaultRetryConfig
    /\ req \in [lhs : HuefyErrors, rhs : HuefyErrors, third : HuefyErrors]
    /\ pc = "Built"
    /\ attempt = 0
    /\ attempts = 0
    /\ lastErr = NoError
    /\ delay = 0
    /\ last = NoOutcome
    /\ seen = {}
    /\ cancelAt = "none"
    /\ cancelAttempts = 0
    /\ result = [ok |-> FALSE, err |-> NoError]
    /\ apiKey = "test-key"
    /\ headers = NoHeaders
    /\ parked = NoCall
    /\ heap = NoHeap
    /\ clients = NoClients
    /\ subscribers = NoSubscribers

\* XCTAssertEqual(a, b) and its kin: == is asked about the errors at hand.
SwiftCompare ==
    /\ pc = "Built"
    /\ pc' = "Done"
    /\ result' = [ok |-> TRUE,
                  self |-> HuefyErrorEquals(req.lhs, req.lhs),
                  lr |-> HuefyErrorEquals(req.lhs, req.rhs),
                  rl |-> HuefyErrorEquals(req.rhs, req.lhs),
                  rt |-> HuefyErrorEquals(req.rhs, req.third),
                  lt |-> HuefyErrorEquals(req.lhs, req.third)]
    /\ UNCHANGED <<sdk, cfg, req, attempt, attempts, lastErr, delay, last, seen,
                   cancelAt, cancelAttempts>>
    /\ UNCHANGED <<apiKey, parked, heap, clients, subscribers>>
    /\ headers' = headers

EqualityNext == SwiftCompare

EqualitySpec == EqualityInit /\ [][EqualityNext]_vars

-----------------------------------------------------------------------------
(* PublisherSpec: the Combine publishers of the Swift client.  Each is a  *)
(* Future whose closure starts a Task at once; the Task awaits the async  *)
(* call and fulfils the promise.  `req` names the publisher, `pc` is the  *)
(* Task's position ("Created", "Awaiting", "Done"), `lastErr` what the    *)
(* async call threw (NoError: it returned), `result` what the promise was *)
(* called with, and `subscribers` what each subscriber has received.      *)

MaxSubscribers == 2
SubscriberIds == 1 .. MaxSubscribers

Publishers == {"sendEmailPublisher", "sendBulkEmailsPublisher", "healthCheckPublisher"}

\* The cases of enum HuefyError.
HuefyErrorCases ==
    {"invalidApiKey", "invalidURL", "networkError", "decodingError",
     "encodingError", "templateNotFound", "validationError",
     "rateLimitExceeded", "providerError", "serverError", "unknown"}

\* How the awaited call ends: it returns (NoError), or it throws what
\* performRequest throws: the HuefyError made of the last answer, the
\* URLError of session.data(for:) as it is, or unknown after no attempt.
AsyncCallEndings ==
    {swiftExecuteRequest(o) : o \in Outcomes}
        \cup {Err("unknown", "", <<"Request", "failed", "after", "attempts">>, 0)}

\* error.localizedDescription of an error that is not a HuefyError.
localizedDescription(e) == <<e.type, e.code>>

PromiseResultAlwaysUnknown(e) ==
    IF e = NoError THEN [ok |-> TRUE, err |-> NoError]
    ELSE [ok |-> FALSE, err |-> Err("unknown", "", localizedDescription(e), 0)]

\* do { promise(.success(response)) }
\* catch let error as HuefyError { promise(.failure(error)) }
\* catch { promise(.failure(.unknown(error.localizedDescription))) }
PromiseResult(e) ==
    IF e = NoError THEN [ok |-> TRUE, err |-> NoError]
    ELSE IF e.type \in HuefyErrorCases THEN [ok |-> FALSE, err |-> e]
    ELSE [ok |-> FALSE, err |-> Err("unknown", "", localizedDescription(e), 0)]

ValueEvent == [kind |-> "value", err |-> NoError]
FinishedEvent == [kind |-> "finished", err |-> NoError]
FailureEvent(e) == [kind |-> "failure", err |-> e]

\* Future hands a subscriber its result: the value and .finished, or
\* .failure(error).
FutureEvents(r) ==
    IF r.ok THEN <<ValueEvent, FinishedEvent>> ELSE <<FailureEvent(r.err)>>

NotSubscribed == [subscribed |-> FALSE, events |-> <<>>]

PublisherInit ==
    /\ sdk = "swift"
    /\ cfg = DefaultRetryConfig
    /\ req \in [publisher : Publishers]
    /\ pc = "Created"
    /\ attempt = 0
    /\ attempts = 0
    /\ lastErr = NoError
    /\ delay = 0
    /\ last = NoOutcome
    /\ seen = {}
    /\ cancelAt = "none"
    /\ cancelAttempts = 0
    /\ result = [ok |-> FALSE, err |-> NoError]
    /\ apiKey = "test-key"
    /\ headers = NoHeaders
    /\ parked = NoCall
    /\ heap = NoHeap
    /\ clients = NoClients
    /\ subscribers = [s \in SubscriberIds |-> NotSubscribed]

\* Task { ... try await self.sendEmail(...) }: the Task starts and awaits.
PublisherTaskAwait ==
    /\ pc = "Created"
    /\ pc' = "Awaiting"
    /\ UNCHANGED <<sdk, cfg, req, attempt, attempts, lastErr, delay, last, seen,
                   cancelAt, cancelAttempts, result, subscribers>>
    /\ UNCHANGED <<apiKey, parked, heap, clients>>
    /\ headers' = headers

\* The awaited call ends and the promise is called: the Future keeps the
\* result and hands it to the subscribers it has.
PublisherPromise ==
    /\ pc = "Awaiting"
    /\ \E e \in AsyncCallEndings :
         /\ lastErr' = e
         /\ Return(PromiseResult(e).ok, PromiseResult(e).err)
         /\ subscribers' =
              [s \in SubscriberIds |->
                  IF subscribers[s].subscribed
                  THEN [subscribers[s] EXCEPT !.events = FutureEvents(PromiseResult(e))]
                  ELSE subscribers[s]]
    /\ UNCHANGED <<sdk, cfg, req, attempt, attempts, delay, last, seen,
                   cancelAt, cancelAttempts>>
    /\ UNCHANGED <<apiKey, parked, heap, clients>>
    /\ headers' = headers

\* .sink(receiveCompletion:receiveValue:): a subscriber attaches; a Future
\* that has its result hands it over at once.
PublisherSubscribe ==
    /\ \E s \in SubscriberIds :
         /\ ~subscribers[s].subscribed
         /\ subscribers' =
              [subscribers EXCEPT ![s] =
                  [subscribed |-> TRUE,
                   events |-> IF pc = "Done" THEN FutureEvents(result) ELSE <<>>]]
    /\ UNCHANGED <<sdk, cfg, req, pc, attempt, attempts, lastErr, delay, last,
                   seen, cancelAt, cancelAttempts, result>>
    /\ UNCHANGED <<apiKey, parked, heap, clients>>
    /\ headers' = headers

PublisherNext ==
    \/ PublisherTaskAwait
    \/ PublisherPromise
    \/ PublisherSubscribe

\* The Task is unstructured and nobody holds its handle: the executor runs
\* it, and the awaited call ends (LiveSpec).
PublisherProgress ==
    \/ PublisherTaskAwait
    \/ PublisherPromise

PublisherSpec == PublisherInit /\ [][PublisherNext]_vars /\ WF_vars(PublisherProgress)

-----------------------------------------------------------------------------
(* The claims *)

\* The greatest number of attempts each binding's setting stands for:
\* MaxRetries + 1 in Go, retryAttempts in Swift and Kotlin.
MaxAttempts == IF sdk = "go" THEN cfg.retry + 1 ELSE cfg.retry

\* The error the binding makes of an attempt's answer.
Classify(o) ==
    CASE sdk = "go" -> goPerformRequest(o)
      [] sdk = "swift" -> swiftExecuteRequest(o)
      [] OTHER -> kotlinExecuteRequest(o)

\* Whether the binding's retry loop goes on after that error.
Retried(err) ==
    CASE sdk = "go" -> isRetryableError(err)
      [] sdk = "swift" -> ~swiftThrowsAtOnce(err)
      [] OTHER -> ~kotlinThrowsAtOnce(err)

IsCancellation(err) ==
    \/ err.type \in {"context", "CancellationError", "CancellationException"}
    \/ err.type = "URLError" /\ err.code = "cancelled"

\* C1: with a retry setting of the documented domain (>= 0), no call makes
\* more transport attempts than MaxRetries + 1 (Go) or retryAttempts (Swift,
\* Kotlin), whatever the attempts are answered with.
C1_AttemptsBounded == cfg.retry >= 0 => attempts <= MaxAttempts

\* A call that used every attempt it has, after at least one retry.
C1_Witness == pc = "Done" /\ attempts >= 2 /\ attempts = MaxAttempts

\* C2 as claimed: answered with 500 k times (k < maxRetries) and then with a
\* decodable 200, the call succeeds on attempt k + 1; so a call that has only
\* seen 500s does not end before maxRetries attempts.
C2_Claimed ==
    (pc = "Done" /\ cancelAt = "none" /\ attempts >= 1 /\ seen \subseteq {200, 500})
        => IF last.status = 200
           THEN (last.body = SuccessBody /\ attempts - 1 < cfg.retry) => result.ok
           ELSE attempts >= cfg.retry

\* C3 as claimed: a call answered with 401 makes exactly one attempt and fails
\* with the binding's authentication error.
C3_Claimed ==
    seen = {401}
        => /\ pc = "Done"
           /\ attempts = 1
           /\ ~result.ok
           /\ result.err.type \in {"AuthenticationError", "invalidApiKey", "InvalidApiKey"}

\* C4 as claimed: once an attempt is answered with a 4xx status other than 429
\* the call is over: no backoff wait and no further attempt follows.
C4_Claimed ==
    (last.kind = "response" /\ last.status \in {400, 401, 403, 404})
        => pc = "Done"

\* C5 as claimed: an attempt that fails with a network error, a timeout, a 429
\* or a 5xx response (whatever its body) does not end the call while fewer
\* than the maximum number of attempts have been made.
C5_Claimed ==
    (/\ cancelAt = "none"
     /\ attempts < MaxAttempts
     /\ \/ last.kind = "failure" /\ last.failure \in {"network", "timeout"}
        \/ last.kind = "response" /\ last.status \in {429, 500, 503})
        => pc # "Done"

\* C6: a call whose last attempt failed with an error the retry loop retries
\* ends only when its attempts are used up (unless the caller cancelled), and
\* it then fails with the error of that final attempt.
C6_LastErrorReturned ==
    (pc = "Done" /\ last.kind # "none" /\ Classify(last) # NoError
     /\ Retried(Classify(last)))
        => /\ cancelAt = "none" => attempts = MaxAttempts
           /\ attempts = MaxAttempts
                => ~result.ok /\ result.err = At(Classify(last), attempts)

\* Three attempts, all failed and retried, the call over.
C6_Witness ==
    /\ pc = "Done"
    /\ attempts = 3
    /\ attempts = MaxAttempts
    /\ cancelAt = "none"
    /\ Retried(Classify(last))
    /\ ~result.ok

\* C7 as claimed: the delay before the n-th retry is
\* min(baseDelay * multiplier^(n-1), maxDelay) (Swift and Kotlin: multiplier 2,
\* no maxDelay).  Multipliers are tenths, so both sides are scaled by 10^(n-1).
C7_Claimed ==
    pc = "Retrying"
        => LET n == attempt
               scale == Pow(10, n - 1)
               uncapped == cfg.baseDelay * Pow(cfg.multiplier, n - 1)
           IN delay * scale =
                IF sdk = "go" THEN Min(uncapped, cfg.maxDelay * scale) ELSE uncapped

C9_Claimed ==
    cancelAt = "Sending"
        => /\ attempts = cancelAttempts
           /\ pc = "Done" => ~result.ok /\ IsCancellation(result.err)

\* The request invariant of the data model: template key and recipient
\* non-empty, recipient with "@" and ".", data present, provider known or absent.
ValidRequest(r) ==
    /\ ~r.nil
    /\ r.templateKey # ""
    /\ r.recipient # <<>>
    /\ Contains(r.recipient, "@")
    /\ Contains(r.recipient, ".")
    /\ r.data # "nil"
    /\ r.provider \in KnownProviders \cup {"none"}

\* C10 as claimed: a send call with an invalid request ends with zero
\* transport attempts made.
C10_Claimed == ~ValidRequest(req) => attempts = 0

\* C11: validateSendEmailRequest accepts a request exactly when its template
\* key is non-empty, its recipient is non-empty and contains "@" and ".", its
\* data is present and its provider is absent or one of ses, sendgrid, mailgun,
\* mailchimp; so every other provider string is rejected and those four pass.
C11_AcceptsIffValid == pc = "Done" => (result.ok <=> ValidRequest(req))

\* An accepted request that names one of the four providers.
C11_Witness ==
    pc = "Done" /\ result.ok /\ result.err = NoError /\ req.provider = "mailchimp"

\* The first field validation finds fault with, in the order of its checks.
OffendingField(r) ==
    CASE r.templateKey = "" -> "templateKey"
      [] r.recipient = <<>> -> "recipient"
      [] ~Contains(r.recipient, "@") \/ ~Contains(r.recipient, ".") -> "recipient"
      [] r.data = "nil" -> "data"
      [] OTHER -> "provider"

\* The recipient is there and fails the email-shape check, the fields before
\* it being in order.
MalformedRecipient(r) ==
    /\ r.templateKey # ""
    /\ r.recipient # <<>>
    /\ ~Contains(r.recipient, "@") \/ ~Contains(r.recipient, ".")

FirstInvalid(emails) ==
    LET bad == { i \in 1 .. Len(emails) : ~ValidRequest(emails[i]) }
    IN IF bad = {} THEN 0 ELSE CHOOSE j \in bad : \A k \in bad : j <= k

\* C13 as claimed: a bulk call with no items, or with an invalid item, ends
\* before any transport attempt with a ValidationError, which for an invalid
\* item reports the index of the first invalid item and that item's
\* validation error.
C13_Claimed ==
    (pc # "Built" /\ (Len(req.emails) = 0 \/ FirstInvalid(req.emails) # 0))
        => /\ pc = "Done"
           /\ attempts = 0
           /\ ~result.ok
           /\ result.err.type = "ValidationError"
           /\ Len(req.emails) # 0
                => /\ result.err.index = FirstInvalid(req.emails) - 1
                   /\ result.err.wrapped =
                        validateSendEmailRequest(req.emails[FirstInvalid(req.emails)])

\* C14 as claimed: an attempt answered with a 2xx status and a body that does
\* not decode ends the call, with the decoding error of that attempt: no
\* backoff wait and no further attempt follows it.
C14_Claimed ==
    (last.kind = "response" /\ isSuccessful(last.status) /\ last.body # SuccessBody)
        => /\ pc = "Done"
           /\ ~result.ok
           /\ result.err = At(Classify(last), attempts)

\* C15 as claimed: a call (with a retry setting >= 0) that returned a result
\* received a 2xx status on one of its attempts.
C15_Claimed ==
    (pc = "Done" /\ result.ok /\ cfg.retry >= 0)
        => \E st \in seen : isSuccessful(st)

\* The error made of the attempt just answered: returned, or kept for the retry.
Classified == IF pc = "Done" THEN result.err ELSE lastErr

\* The Go type of each taxonomy member that has a code of its own.
TypeOfCode(code) ==
    CASE code = "AUTHENTICATION_FAILED" -> "AuthenticationError"
      [] code = "TEMPLATE_NOT_FOUND" -> "TemplateNotFoundError"
      [] code = "INVALID_TEMPLATE_DATA" -> "InvalidTemplateDataError"
      [] code = "INVALID_RECIPIENT" -> "InvalidRecipientError"
      [] code = "PROVIDER_ERROR" -> "ProviderError"
      [] code = "RATE_LIMIT_EXCEEDED" -> "RateLimitError"
      [] code = "VALIDATION_FAILED" -> "ValidationError"
      [] code = "TIMEOUT" -> "TimeoutError"
      [] code = "NETWORK_ERROR" -> "NetworkError"
      [] OTHER -> "HuefyError"

TypedCodes == ErrorCodes \ {"INTERNAL_SERVER_ERROR", "SERVICE_UNAVAILABLE", "BAD_GATEWAY"}

\* An attempt of the Go client has been answered with a nested error body.
GoNestedAnswered ==
    sdk = "go" /\ pc # "Sending" /\ last.kind = "response" /\ last.body.shape = "nested"

\* C16: the Go classifier makes of a nested error body with the code of a
\* taxonomy member an error of that member's type, with the body's code,
\* message and details unchanged, and with the type's own fields taken from
\* details: templateKey, validationErrors, provider and providerCode,
\* retryAfter (zero values where details lacks the key or has another JSON
\* type under it).
C16_ClassifierRoundTrip ==
    (GoNestedAnswered /\ last.body.code \in TypedCodes)
        => LET e == Classified
               d == last.body.details
           IN /\ e.type = TypeOfCode(last.body.code)
              /\ e.code = last.body.code
              /\ e.msg = last.body.message
              /\ e.details = d
              /\ e.fields.templateKey =
                    IF e.type = "TemplateNotFoundError" /\ d.templateKey.t = "string"
                    THEN d.templateKey.v[1] ELSE ""
              /\ e.fields.validationErrors =
                    IF e.type = "InvalidTemplateDataError" /\ d.validationErrors.t = "array"
                    THEN d.validationErrors.v ELSE <<>>
              /\ e.fields.provider =
                    IF e.type = "ProviderError" /\ d.provider.t = "string"
                    THEN d.provider.v[1] ELSE ""
              /\ e.fields.providerCode =
                    IF e.type = "ProviderError" /\ d.providerCode.t = "string"
                    THEN d.providerCode.v[1] ELSE ""
              /\ (e.type = "RateLimitError" /\ d = FullDetails) => e.fields.retryAfter = 60
              /\ (e.type = "RateLimitError" /\ d = FractionDetails) => e.fields.retryAfter = 1
              /\ (e.type # "RateLimitError" \/ d.retryAfter.t # "number")
                    => e.fields.retryAfter = 0

\* A rate-limit body with retryAfter 60, classified.
C16_Witness ==
    /\ GoNestedAnswered
    /\ last.body.code = "RATE_LIMIT_EXCEEDED"
    /\ last.body.details = FullDetails
    /\ Classified.type = "RateLimitError"
    /\ Classified.fields.retryAfter = 60

GarbageAnswered ==
    pc # "Sending" /\ last.kind = "response" /\ last.body = GarbageBody

\* C18 as claimed: the error made of an error response whose body does not
\* parse has the code HTTP_<statusCode> and the raw body as its message.
C18_Claimed ==
    GarbageAnswered
        => /\ Classified.code = HttpCode(last.status)
           /\ Classified.msg = last.body.message

\* C18, amended: in the Go client the error made of such a response is a
\* generic HuefyError with the code HTTP_<statusCode> and the raw body as its
\* message; in the Swift and Kotlin clients the error is chosen by the status
\* code alone, has no code, and its message, where its case has one, is the
\* localized status text (Swift) or "HTTP <statusCode>" (Kotlin), never the body.
C18_FallbackPerBinding ==
    GarbageAnswered
        => LET e == Classified
           IN CASE sdk = "go" ->
                    /\ e.type = "HuefyError"
                    /\ e.code = HttpCode(last.status)
                    /\ e.msg = last.body.message
                [] sdk = "swift" ->
                    /\ e.code = ""
                    /\ e.msg \in {<<>>, LocalizedString(last.status)}
                    /\ e.type = "serverError" => e.status = last.status
                [] OTHER ->
                    /\ e.code = ""
                    /\ e.msg \in {<<>>, <<"HTTP", HttpCode(last.status)>>}
                    /\ e.type = "ServerError" => e.status = last.status

\* The Go client answered with 503 and a page that is no JSON.
C18_Witness ==
    /\ GarbageAnswered
    /\ sdk = "go"
    /\ last.status = 503
    /\ Classified.code = "HTTP_503"

\* The body of the other shape with the same code and message.
OtherShape(body) ==
    IF body.shape = "nested"
    THEN FlatBody(body.code, body.message)
    ELSE NestedBody(body.code, body.message)

\* C19 as claimed: the error made of a nested error body and the one made of
\* the flat body with the same code and message have the same type, code and
\* message.
C19_Claimed ==
    (pc # "Sending" /\ last.kind = "response" /\ last.body.shape \in {"nested", "flat"})
        => LET e == Classified
               f == Classify(Response(last.status, OtherShape(last.body)))
           IN /\ e.type = f.type
              /\ e.code = f.code
              /\ e.msg = f.msg

\* The response of the scenario: 404 with the nested TEMPLATE_NOT_FOUND body.
TemplateNotFoundResponse ==
    Response(404, NestedBodyWith("TEMPLATE_NOT_FOUND", <<"Template", "not", "found">>,
                                 [NoDetails EXCEPT !.templateKey = JString("welcome-email")]))

\* C20 as claimed: a send call whose first attempt is answered with that
\* response is over after this one attempt, with the binding's
\* template-not-found error carrying the template key "welcome-email".
C20_Claimed ==
    (attempts = 1 /\ last = TemplateNotFoundResponse)
        => /\ pc = "Done"
           /\ ~result.ok
           /\ result.err.type \in {"TemplateNotFoundError", "templateNotFound", "TemplateNotFound"}
           /\ \/ result.err.fields.templateKey = "welcome-email"
              \/ result.err.msg = <<"welcome-email">>

\* C21 as claimed: a call that ends on an attempt that failed in the transport
\* fails with a typed transport error: the binding's NetworkError for a
\* network-level failure, its TimeoutError when the timeout elapsed.
C21_Claimed ==
    (pc = "Done" /\ cancelAt = "none" /\ last.kind = "failure")
        => /\ ~result.ok
           /\ last.failure = "network"
                => result.err.type \in {"NetworkError", "networkError"}
           /\ last.failure = "timeout"
                => result.err.type \in {"TimeoutError", "timeoutError"}

\* The error types of the three bindings: the Go structs around HuefyError,
\* the cases of the Swift enum HuefyError, the subclasses of the Kotlin
\* sealed class HuefyException.
TaxonomyTypes ==
    {"HuefyError", "AuthenticationError", "TemplateNotFoundError",
     "InvalidTemplateDataError", "InvalidRecipientError", "ProviderError",
     "RateLimitError", "NetworkError", "TimeoutError", "ValidationError"}
    \cup {"invalidApiKey", "invalidURL", "networkError", "decodingError",
          "encodingError", "templateNotFound", "validationError",
          "rateLimitExceeded", "providerError", "serverError", "unknown"}
    \cup {"InvalidApiKey", "InvalidUrl", "DecodingError", "EncodingError",
          "TemplateNotFound", "RateLimitExceeded", "ServerError", "Unknown"}

\* C22 as claimed: a call that failed returned an error of the binding's typed
\* taxonomy, on every failure path (validation, decoding, cancellation,
\* transport failure, error response).
C22_Claimed ==
    (pc = "Done" /\ ~result.ok) => result.err.type \in TaxonomyTypes

\* C23 as claimed: a Go call returns a response or an error and never both or
\* neither, and it returns an error unless one of its attempts was answered
\* with a success (2xx) response that decoded.
C23_Claimed ==
    (sdk = "go" /\ pc = "Done")
        => /\ result.ok <=> result.err = NoError
           /\ result.ok
                => /\ last.kind = "response"
                   /\ isSuccessful(last.status)
                   /\ last.body = SuccessBody

\* C24: under LiveSpec every call ends (Succeeded or Failed); a backoff wait is
\* entered only while at most maxRetries attempts have been made, so at most
\* maxRetries times, and it leads to the next attempt or to the end of the call.
C24_Terminates ==
    /\ <>(pc = "Done")
    /\ [](pc = "Retrying" => (attempts >= 1 /\ attempts <= cfg.retry))
    /\ [][pc = "Retrying"
            => \/ pc' = "Sending" /\ attempts' = attempts + 1
               \/ pc' = "Done" /\ ~result'.ok
               \/ pc' = "Retrying" /\ attempts' = attempts]_vars

\* The last backoff wait a Go call may enter has elapsed and the call ended.
C24_Witness ==
    /\ sdk = "go"
    /\ cfg.retry >= 2
    /\ pc = "Done"
    /\ attempt = cfg.retry + 1
    /\ cancelAt = "none"

C26_Claimed ==
    [][\A id \in ClientIds :
          clients[id].made
              => /\ clients'[id].made
                 /\ clients'[id].apiKey = clients[id].apiKey
                 /\ RetryPolicy(heap', clients'[id]) = RetryPolicy(heap, clients[id])]_vars

\* The local state of call i, running or not.
CallState(i) == IF parked.id = i THEN parked ELSE Local(i)

\* What a call that runs alone guarantees about its own state: its attempts
\* are bounded by the client's setting, the error it carries round the loop is
\* the one made of its own last answer, and once over it has returned what
\* its own last answer and its own attempt count determine.
OwnOutcome(l) ==
    /\ l.attempts <= MaxAttempts
    /\ (l.pc \in {"Sending", "Retrying"} /\ l.lastErr # NoError)
         => l.lastErr = At(Classify(l.last),
                           IF l.pc = "Sending" THEN l.attempts - 1 ELSE l.attempts)
    /\ (l.pc = "Done" /\ l.last.kind # "none")
         => LET e == Classify(l.last)
            IN /\ e = NoError => l.result = [ok |-> TRUE, err |-> NoError]
               /\ (e # NoError /\ (~Retried(e) \/ l.attempts = MaxAttempts))
                    => l.result = [ok |-> FALSE, err |-> At(e, l.attempts)]
               /\ (e # NoError /\ Retried(e) /\ l.attempts < MaxAttempts)
                    => l.cancelAt # "none" /\ ~l.result.ok

\* C27: under every interleaving of two calls on one client, a call's state
\* (attempt counter, last error, delay, result) changes only by that call's
\* own steps, the client's configuration never changes, and each call's
\* attempt count and outcome are those its own transport outcomes determine.
C27_Independent ==
    /\ [][/\ cfg' = cfg /\ sdk' = sdk /\ apiKey' = apiKey
           /\ \A i \in Calls :
                CallState(i)' # CallState(i)
                    => RunningId = i /\ RunningId' = i]_vars
    /\ [](\A i \in Calls : OwnOutcome(CallState(i)))

\* One call has failed after its retry while the other, interleaved with it,
\* succeeded on its first attempt.
C27_Witness ==
    /\ pc = "Done" /\ parked.pc = "Done"
    /\ ~result.ok /\ attempts = 2 /\ Retried(Classify(last))
    /\ parked.result.ok /\ parked.attempts = 1
    /\ RunningId = 1

\* C28 as claimed: a bulk send of N items that returns a result, or that ends
\* over one item without a network call, has exactly N per-item outcomes.
C28_Claimed ==
    (pc = "Done" /\ (result.ok \/ attempts = 0))
        => Len(BulkResults) = Len(req.emails)

\* The client identifier each binding sends.
UserAgentOf(binding) ==
    CASE binding = "go" -> "Huefy-Go-SDK/1.0.0"
      [] binding = "swift" -> "Huefy-iOS-SDK/1.0.0"
      [] OTHER -> "Huefy-Android-SDK/1.0.0"

\* C29: the request of every transport attempt, the first and each retry,
\* carries X-API-Key with the client's configured key, Content-Type and
\* Accept application/json, and the binding's User-Agent.
C29_HeadersOnEveryAttempt ==
    attempts >= 1
        => /\ headers.xApiKey = apiKey
           /\ headers.contentType = "application/json"
           /\ headers.accept = "application/json"
           /\ headers.userAgent = UserAgentOf(sdk)

\* A retry in flight on a client made with the second key.
C29_Witness ==
    pc = "Sending" /\ attempts >= 2 /\ apiKey = "test-api-key" /\ lastErr # NoError

\* C30 as claimed: the configuration of a Swift client built from only an API
\* key resolves baseURL to https://api.huefy.com/api/v1/sdk and has timeout
\* 30 s, retryAttempts 3 and retryDelay 1 s; one built with an explicit
\* baseURL resolves to that URL.
C30_Claimed ==
    sdk = "swift"
        => \A id \in ClientIds :
             clients[id].made
                 => LET c == clients[id].configuration
                    IN /\ c = HuefyConfigurationOf(apiKey)
                            => /\ baseURL(c) = "https://api.huefy.com/api/v1/sdk"
                               /\ c.timeout = 30000
                               /\ c.retry = 3
                               /\ c.baseDelay = 1000
                       /\ c.customBaseURL # "none"
                            => baseURL(c) = c.customBaseURL

\* The checker of a typed constructor's own type.
OwnChecker(fn) ==
    CASE fn = "NewAuthenticationError" -> "IsAuthenticationError"
      [] fn = "NewTemplateNotFoundError" -> "IsTemplateNotFoundError"
      [] fn = "NewInvalidTemplateDataError" -> "IsInvalidTemplateDataError"
      [] fn = "NewInvalidRecipientError" -> "IsInvalidRecipientError"
      [] fn = "NewProviderError" -> "IsProviderError"
      [] fn = "NewRateLimitError" -> "IsRateLimitError"
      [] fn = "NewNetworkError" -> "IsNetworkError"
      [] fn = "NewTimeoutError" -> "IsTimeoutError"
      [] OTHER -> "IsValidationError"

\* C31: of an error built by a typed constructor exactly one of the nine
\* checkers is true, the one of its own type; of an error that is no Huefy
\* error (a wrapped one included) none is.
C31_ExactlyOwnChecker ==
    pc = "Done"
        => IF req.fn \in TypedConstructors
           THEN result.checkers = {OwnChecker(req.fn)}
           ELSE result.checkers = {}

\* A timeout error has been built and checked.
C31_Witness ==
    pc = "Done" /\ req.fn = "NewTimeoutError" /\ result.checkers = {"IsTimeoutError"}

\* The case of the table a Swift or Kotlin error is.
TableCase(type) ==
    CASE type \in {"templateNotFound", "TemplateNotFound"} -> "TemplateNotFound"
      [] type \in {"validationError", "ValidationError"} -> "ValidationError"
      [] type \in {"invalidApiKey", "InvalidApiKey"} -> "InvalidApiKey"
      [] type \in {"rateLimitExceeded", "RateLimitExceeded"} -> "RateLimitExceeded"
      [] type \in {"serverError", "ServerError"} -> "ServerError"
      [] OTHER -> "other"

\* The message the binding reads from an error response.
MessageRead(o) ==
    IF sdk = "swift" THEN SwiftErrorMessage(o.status, o.body)
    ELSE KotlinErrorMessage(o.status, o.body)

\* C32: a Swift or Kotlin attempt answered with a status >= 400 yields the
\* error of the table: 400 TemplateNotFound if the message has "template" and
\* "not found", else ValidationError; 401 InvalidApiKey; 404 TemplateNotFound
\* if the message has "template", else ServerError(404); 422 ValidationError;
\* 429 RateLimitExceeded; any other status ServerError with status and message.
C32_StatusTable ==
    (sdk \in {"swift", "kotlin"} /\ pc # "Sending" /\ last.kind = "response"
     /\ last.status >= 400)
        => LET st == last.status
               msg == MessageRead(last)
               err == Classified
               case == TableCase(err.type)
           IN CASE st = 400 ->
                     IF ContainsTemplate(msg) /\ ContainsNotFound(msg)
                     THEN case = "TemplateNotFound" /\ err.msg = msg
                     ELSE case = "ValidationError" /\ err.msg = msg
                [] st = 401 -> case = "InvalidApiKey"
                [] st = 404 ->
                     IF ContainsTemplate(msg)
                     THEN case = "TemplateNotFound" /\ err.msg = msg
                     ELSE case = "ServerError" /\ err.status = 404 /\ err.msg = msg
                [] st = 422 -> case = "ValidationError" /\ err.msg = msg
                [] st = 429 -> case = "RateLimitExceeded"
                [] OTHER -> case = "ServerError" /\ err.status = st /\ err.msg = msg

\* A Swift 404 whose message does not name a template: a server error.
C32_Witness ==
    /\ sdk = "swift" /\ pc # "Sending" /\ last.kind = "response"
    /\ last.status = 404 /\ ~ContainsTemplate(MessageRead(last))
    /\ Classified.type = "serverError"

\* C33: an attempt starts either as the first one, straight from Built, or
\* out of a backoff wait, and each wait is followed by at most one attempt;
\* a wait is entered only from an attempt that has failed and only while
\* attempts remain, so none precedes the first attempt or follows the last,
\* after which the call returns.
C33_OneWaitBetweenAttempts ==
    [][/\ attempts' # attempts
            => /\ attempts' = attempts + 1
               /\ pc' = "Sending"
               /\ \/ pc = "Built" /\ attempts = 0
                  \/ pc = "Retrying" /\ attempts >= 1
       /\ (pc' = "Retrying" /\ pc # "Retrying")
            => pc = "Sending" /\ attempts >= 1 /\ attempts < MaxAttempts
       /\ (pc = "Sending" /\ attempts >= MaxAttempts /\ pc' # "Sending")
            => pc' = "Done"]_vars

\* A Kotlin call that used all its attempts and returned after the last one.
C33_Witness ==
    /\ sdk = "kotlin" /\ pc = "Done" /\ cancelAt = "none"
    /\ attempts = MaxAttempts /\ attempts >= 3 /\ ~result.ok

\* The faults of a request, each by the check that finds it.
Faults(r) ==
    IF r.nil THEN {"nil"}
    ELSE { f \in {"templateKey", "recipientEmpty", "recipientShape", "data", "provider"} :
             CASE f = "templateKey" -> r.templateKey = ""
               [] f = "recipientEmpty" -> r.recipient = <<>>
               [] f = "recipientShape" ->
                    ~Contains(r.recipient, "@") \/ ~Contains(r.recipient, ".")
               [] f = "data" -> r.data = "nil"
               [] OTHER -> r.provider \notin KnownProviders \cup {"none"} }

\* The place of a check in the fixed order.
CheckRank(f) ==
    CASE f = "nil" -> 0
      [] f = "templateKey" -> 1
      [] f = "recipientEmpty" -> 2
      [] f = "recipientShape" -> 3
      [] f = "data" -> 4
      [] OTHER -> 5

\* What the check reports.
CheckMessage(f) ==
    CASE f = "nil" -> <<"request", "cannot", "be", "nil">>
      [] f = "templateKey" -> <<"templateKey", "is", "required">>
      [] f = "recipientEmpty" -> <<"recipient", "is", "required">>
      [] f = "recipientShape" -> <<"invalid", "email", "address">>
      [] f = "data" -> <<"data", "is", "required">>
      [] OTHER -> <<"invalid", "provider">>

\* C34: a Go send call whose request has faults is rejected with the message
\* of the fault that comes first in the order nil request, templateKey empty,
\* recipient empty, recipient shape, data absent, provider unrecognized, and
\* with that one alone, before any attempt.
C34_FirstFailingCheck ==
    (sdk = "go" /\ pc = "Done" /\ Faults(req) # {})
        => LET first == CHOOSE f \in Faults(req) :
                            \A g \in Faults(req) : CheckRank(f) <= CheckRank(g)
           IN /\ ~result.ok
              /\ attempts = 0
              /\ result.err.msg = CheckMessage(first)

\* A request with a malformed recipient, no data and an unknown provider is
\* rejected for its recipient.
C34_Witness ==
    /\ sdk = "go" /\ pc = "Done"
    /\ {"recipientShape", "data", "provider"} \subseteq Faults(req)
    /\ result.err.msg = <<"invalid", "email", "address">>

\* C35 as claimed: whatever the retry setting, a call whose request passes
\* validation (Swift and Kotlin validate nothing) makes at least one
\* transport attempt, and it succeeds only if an attempt of its own was
\* answered with a success response.
C35_Claimed ==
    (pc = "Done" /\ (sdk = "go" => ValidRequest(req)))
        => /\ attempts >= 1
           /\ result.ok
                => /\ last.kind = "response"
                   /\ last.status < 400
                   /\ last.body = SuccessBody

\* C36 as claimed: in the Swift request body the template key and the
\* recipient are the ones the caller passed, whatever keys the data
\* dictionary holds.
C36_Claimed ==
    (sdk = "swift" /\ pc = "Done" /\ req \in EncodeRequests)
        => /\ result.body["template_key"] = JString(req.templateKey)
           /\ result.body["recipient"] = JString(req.recipient)

\* The payloads == compares for each case: validationError's details and
\* the wrapped Error of networkError, decodingError and encodingError are
\* not compared.
ComparedPayloads(e) ==
    CASE e.case \in {"templateNotFound", "validationError", "unknown"} -> <<e.str>>
      [] e.case = "rateLimitExceeded" -> <<e.opt>>
      [] e.case = "providerError" -> <<e.str, e.opt>>
      [] e.case = "serverError" -> <<e.opt>>
      [] OTHER -> <<>>

ComparedStatus(e) == IF e.case = "serverError" THEN e.num ELSE 0

\* C37 as claimed: Swift's == on HuefyError is an equivalence relation over
\* every case: each error equals itself, a == b exactly when b == a, a == b
\* and b == c give a == c, and two errors of one case are equal exactly
\* when the payloads == compares are equal.
C37_Claimed ==
    (pc = "Done" /\ req \in [lhs : HuefyErrors, rhs : HuefyErrors, third : HuefyErrors])
        => /\ result.self
           /\ result.lr = result.rl
           /\ (result.lr /\ result.rt) => result.lt
           /\ req.lhs.case = req.rhs.case
                => (result.lr <=> /\ ComparedPayloads(req.lhs) = ComparedPayloads(req.rhs)
                                  /\ ComparedStatus(req.lhs) = ComparedStatus(req.rhs))

\* The terminal events among those a subscriber received: the response, or
\* a failure.
TerminalEvents(s) ==
    {i \in 1 .. Len(subscribers[s].events) :
        subscribers[s].events[i].kind \in {"value", "failure"}}

Delivered(s) == subscribers[s].events # <<>>

\* C38: each subscription of a Swift publisher receives exactly one terminal
\* event: it receives one in the end, never more than one, and none after
\* it; the event is the response when the async call returned, the thrown
\* HuefyError itself when it threw one, and HuefyError.unknown when it threw
\* anything else.
C38_OneTerminalEvent ==
    /\ [](\A s \in SubscriberIds :
            Delivered(s)
                => /\ subscribers[s].subscribed /\ pc = "Done"
                   /\ Cardinality(TerminalEvents(s)) = 1
                   /\ LET ev == subscribers[s].events[1]
                      IN /\ ev.kind = "value" <=> lastErr = NoError
                         /\ ev.kind = "value"
                              => subscribers[s].events = <<ValueEvent, FinishedEvent>>
                         /\ ev.kind = "failure"
                              => /\ Len(subscribers[s].events) = 1
                                 /\ lastErr.type \in HuefyErrorCases => ev.err = lastErr
                                 /\ lastErr.type \notin HuefyErrorCases
                                      => ev.err.type = "unknown")
    /\ [][\A s \in SubscriberIds :
            Delivered(s) => subscribers'[s].events = subscribers[s].events]_vars
    /\ \A s \in SubscriberIds : subscribers[s].subscribed ~> Delivered(s)

\* Every subscriber has received the serverError the call threw, unchanged,
\* and nothing else.
C38_Witness ==
    /\ pc = "Done"
    /\ lastErr.type = "serverError"
    /\ \A s \in SubscriberIds : subscribers[s].events = <<FailureEvent(lastErr)>>

====
